---- MODULE Spec2Model ----
(***************************************************************************)
(* GCLQL query compiler of the Universal Metadata Browser backend          *)
(* (backend/app/utils/gclql_query_parser_utils.py and the storage modules  *)
(* it calls): grammar and AST builder, Field resolver, SqlTranslator,      *)
(* recovery layer, query assembler and the QueryParser's setup.            *)
(*                                                                         *)
(* Python strings are TLA+ strings (TLC evaluates Len, \o and SubSeq on    *)
(* them), so SQL text, field names and query strings are the real texts.   *)
(* Python values are records [kind, n, s]: int, float, str, datetime, None.*)
(***************************************************************************)
EXTENDS Integers, Sequences, FiniteSets, TLC

-----------------------------------------------------------------------------
(* Bounds of the model *)

\* number of callers that run parse_query on one QueryParser at the same time
MaxCalls == 2

\* number of times setup() is run (1 = initial setup, 2 = one refresh)
MaxSetups == 2

-----------------------------------------------------------------------------
(* Python str helpers *)

\* s[i..j] with 1-based inclusive bounds, clamped to the string like a Python slice
Sub(s, i, j) ==
    LET lo == IF i < 1 THEN 1 ELSE i
        hi == IF j > Len(s) THEN Len(s) ELSE j
    IN IF lo > hi THEN "" ELSE SubSeq(s, lo, hi)

Ch(s, i) == Sub(s, i, i)

\* the element of a one-element set: The({e : x \in {v}}) is e with x standing for v
The(S) == CHOOSE x \in S : TRUE

Digits == {"0", "1", "2", "3", "4", "5", "6", "7", "8", "9"}
LowerLetters == {"a", "b", "c", "d", "e", "f", "g", "h", "i", "j", "k", "l", "m",
                 "n", "o", "p", "q", "r", "s", "t", "u", "v", "w", "x", "y", "z"}
UpperLetters == {"A", "B", "C", "D", "E", "F", "G", "H", "I", "J", "K", "L", "M",
                 "N", "O", "P", "Q", "R", "S", "T", "U", "V", "W", "X", "Y", "Z"}
Whitespace == {" ", "\t", "\n", "\r", "\f"}

LowerOf == [c \in UpperLetters |->
    CASE c = "A" -> "a" [] c = "B" -> "b" [] c = "C" -> "c" [] c = "D" -> "d"
      [] c = "E" -> "e" [] c = "F" -> "f" [] c = "G" -> "g" [] c = "H" -> "h"
      [] c = "I" -> "i" [] c = "J" -> "j" [] c = "K" -> "k" [] c = "L" -> "l"
      [] c = "M" -> "m" [] c = "N" -> "n" [] c = "O" -> "o" [] c = "P" -> "p"
      [] c = "Q" -> "q" [] c = "R" -> "r" [] c = "S" -> "s" [] c = "T" -> "t"
      [] c = "U" -> "u" [] c = "V" -> "v" [] c = "W" -> "w" [] c = "X" -> "x"
      [] c = "Y" -> "y" [] c = "Z" -> "z"]

UpperOf == [c \in LowerLetters |-> CHOOSE u \in UpperLetters : LowerOf[u] = c]

RECURSIVE MapChars(_, _, _)
MapChars(s, dom, f) ==
    IF s = "" THEN ""
    ELSE (IF Head(s) \in dom THEN f[Head(s)] ELSE Head(s)) \o MapChars(Tail(s), dom, f)

\* str.lower() / str.upper()
Lower(s) == MapChars(s, UpperLetters, LowerOf)
Upper(s) == MapChars(s, LowerLetters, UpperOf)

\* str.startswith / str.endswith
StartsWith(s, p) == Len(s) >= Len(p) /\ Sub(s, 1, Len(p)) = p
EndsWith(s, p) == Len(s) >= Len(p) /\ Sub(s, Len(s) - Len(p) + 1, Len(s)) = p

\* s[a:] and s[:b] of Python, 0-based bounds
From(s, a) == Sub(s, a + 1, Len(s))
Upto(s, b) == Sub(s, 1, b)

RECURSIVE LStripSet(_, _)
LStripSet(s, cs) == IF s # "" /\ Head(s) \in cs THEN LStripSet(Tail(s), cs) ELSE s
RECURSIVE RStripSet(_, _)
RStripSet(s, cs) ==
    IF s # "" /\ Ch(s, Len(s)) \in cs THEN RStripSet(Sub(s, 1, Len(s) - 1), cs) ELSE s

\* str.strip() and str.strip(chars)
StripSet(s, cs) == RStripSet(LStripSet(s, cs), cs)
Strip(s) == StripSet(s, Whitespace)

\* sep.join(seq)
RECURSIVE Join(_, _)
Join(seq, sep) ==
    IF Len(seq) = 0 THEN ""
    ELSE IF Len(seq) = 1 THEN seq[1]
    ELSE seq[1] \o sep \o Join(Tail(seq), sep)

\* first index >= i (1-based) at which p occurs in s, 0 when there is none
Find(s, p, i) ==
    LET hits == {k \in i..(Len(s) - Len(p) + 1) : Sub(s, k, k + Len(p) - 1) = p}
    IN IF hits = {} THEN 0 ELSE CHOOSE k \in hits : \A j \in hits : k <= j

Contains(s, p) == Find(s, p, 1) # 0

\* end (exclusive) of the maximal run of characters of cs starting at i
RunEnd(s, i, cs) ==
    LET First(stops) == IF stops # {} THEN CHOOSE k \in stops : \A j \in stops : k <= j
                        ELSE IF i > Len(s) THEN i ELSE Len(s) + 1
    IN First({k \in i..Len(s) : Ch(s, k) \notin cs})

DigitVal == [c \in Digits |->
    CASE c = "0" -> 0 [] c = "1" -> 1 [] c = "2" -> 2 [] c = "3" -> 3 [] c = "4" -> 4
      [] c = "5" -> 5 [] c = "6" -> 6 [] c = "7" -> 7 [] c = "8" -> 8 [] c = "9" -> 9]

\* value of a non-empty string of decimal digits
RECURSIVE NatOf(_)
NatOf(ds) ==
    IF Len(ds) = 0 THEN 0
    ELSE 10 * NatOf(Sub(ds, 1, Len(ds) - 1)) + DigitVal[Ch(ds, Len(ds))]

AllDigits(s) == s # "" /\ RunEnd(s, 1, Digits) = Len(s) + 1

-----------------------------------------------------------------------------
(* Python values *)

PyNone == [kind |-> "none", n |-> 0, s |-> ""]
PyInt(n) == [kind |-> "int", n |-> n, s |-> ""]
PyStr(s) == [kind |-> "str", n |-> 0, s |-> s]
\* a float is kept as its repr()
PyFloat(repr) == [kind |-> "float", n |-> 0, s |-> repr]
PyDatetime(iso) == [kind |-> "datetime", n |-> 0, s |-> iso]

IsNumber(v) == v.kind \in {"int", "float"}
IsStr(v) == v.kind = "str"

\* str(v), as used by f-strings and str()
StrOf(v) ==
    CASE v.kind = "int" -> ToString(v.n)
      [] v.kind = "none" -> "None"
      [] OTHER -> v.s

\* int(text) of a SIGNED_NUMBER token without "."
IntOfText(t) ==
    IF Ch(t, 1) = "-" THEN 0 - NatOf(From(t, 1))
    ELSE IF Ch(t, 1) = "+" THEN NatOf(From(t, 1))
    ELSE NatOf(t)

RECURSIVE Zeros(_)
Zeros(n) == IF n <= 0 THEN "" ELSE "0" \o Zeros(n - 1)

\* the significant digits D of a mantissa with integer part ip and fraction
\* fp (zeros stripped at the outer ends), and the power of ten of 0.D
FloatDigitsOf(ip, fp) ==
    [D |-> RStripSet(IF ip # "" THEN ip \o fp ELSE LStripSet(fp, {"0"}), {"0"}),
     shift |-> IF ip # "" THEN Len(ip) ELSE Len(LStripSet(fp, {"0"})) - Len(fp)]

\* repr of the float 0.D * 10^pos (at most 15 digits in D; a magnitude from
\* 1e309 on is inf, one below 1e-323 is zero)
FloatReprAt(sign, D, pos) ==
    IF D = "" \/ pos < -323 THEN sign \o "0.0"
    ELSE IF pos > 309 THEN sign \o "inf"
    ELSE IF pos > 16 \/ pos < -3
    THEN sign \o Ch(D, 1) \o (IF Len(D) > 1 THEN "." \o From(D, 1) ELSE "") \o "e"
           \o (IF pos - 1 < 0 THEN "-" \o (IF 1 - pos < 10 THEN "0" ELSE "") \o ToString(1 - pos)
               ELSE "+" \o (IF pos - 1 < 10 THEN "0" ELSE "") \o ToString(pos - 1))
    ELSE IF pos <= 0 THEN sign \o "0." \o Zeros(0 - pos) \o D
    ELSE IF pos >= Len(D) THEN sign \o D \o Zeros(pos - Len(D)) \o ".0"
    ELSE sign \o Sub(D, 1, pos) \o "." \o From(D, pos)

\* repr(float(text)) of a SIGNED_NUMBER token with "." and an exponent
FloatReprOfExponent(t) ==
    LET body == IF Ch(t, 1) \in {"+", "-"} THEN From(t, 1) ELSE t
    IN The({The({FloatReprAt(IF Ch(t, 1) = "-" THEN "-" ELSE "", d.D,
                             d.shift + IntOfText(From(body, epos)))
                 : d \in {The({FloatDigitsOf(LStripSet(Sub(body, 1, dot - 1), {"0"}),
                                             RStripSet(Sub(body, dot + 1, epos - 1), {"0"}))
                               : dot \in {Find(body, ".", 1)}})}})
            : epos \in {Find(Lower(body), "e", 1)}})

\* repr(float(text)) of a SIGNED_NUMBER token with "."
FloatReprOfText(t) ==
    LET neg == Ch(t, 1) = "-"
        body == IF Ch(t, 1) \in {"+", "-"} THEN From(t, 1) ELSE t
        dot == Find(body, ".", 1)
        ip == LStripSet(Sub(body, 1, dot - 1), {"0"})
        fp == RStripSet(From(body, dot), {"0"})
    IN IF Contains(Lower(t), "e") THEN FloatReprOfExponent(t)
       ELSE (IF neg THEN "-" ELSE "") \o (IF ip = "" THEN "0" ELSE ip) \o "."
              \o (IF fp = "" THEN "0" ELSE fp)

-----------------------------------------------------------------------------
(* AST nodes *)

Comparison(f, o, v) == [node |-> "Comparison", field |-> f, op |-> o, value |-> v]
GlobalSearch(v, q) == [node |-> "GlobalSearch", value |-> v, is_quoted |-> q]
And(l, r) == [node |-> "And", left |-> l, right |-> r]
Or(l, r) == [node |-> "Or", left |-> l, right |-> r]
Not(t) == [node |-> "Not", term |-> t]

-----------------------------------------------------------------------------
(* QUERY_LANGUAGE_GRAMMAR, lexed the way Lark's contextual lexer does it:   *)
(* in each parser state only the terminals acceptable there are tried, the *)
(* keywords (priority 2) first.  The UUID terminal never wins: a text that *)
(* starts with a letter is an IDENTIFIER and one that starts with a digit  *)
(* is a SIGNED_NUMBER, both of which are tried before it.  Numbers with an *)
(* exponent are outside the inputs of the model.                           *)

IdentStart == LowerLetters \cup UpperLetters \cup {"_"}
IdentChars == IdentStart \cup Digits \cup {"-"}
Ops2 == {"!=", ">=", "<=", "!:", "=~", "!~"}
Ops1 == {"=", ">", "<", ":", "#"}

\* %ignore WS
SkipWs(s, i) == RunEnd(s, i, Whitespace)

\* each Scan gives the position after the token that starts at i, 0 if none
ScanIDENTIFIER(s, i) == IF Ch(s, i) \in IdentStart THEN RunEnd(s, i + 1, IdentChars) ELSE 0

\* common.SIGNED_NUMBER: ["+"|"-"] (INT | DECIMAL) with an optional exponent
ScanMantissa(s, i) ==
    LET j0 == IF Ch(s, i) \in {"+", "-"} THEN i + 1 ELSE i
        j1 == RunEnd(s, j0, Digits)
    IN IF j1 = j0
       THEN IF Ch(s, j0) = "." /\ RunEnd(s, j0 + 1, Digits) > j0 + 1
            THEN RunEnd(s, j0 + 1, Digits) ELSE 0
       ELSE IF Ch(s, j1) = "." THEN RunEnd(s, j1 + 1, Digits) ELSE j1

\* the optional exponent after a mantissa that ends before m: [eE][+-]?digits
ScanExponent(s, m, x0) ==
    IF m # 0 /\ Ch(s, m) \in {"e", "E"}
    THEN The({IF x > x0 THEN x ELSE m : x \in {RunEnd(s, x0, Digits)}})
    ELSE m

ScanSIGNED_NUMBER(s, i) ==
    The({ScanExponent(s, m, IF Ch(s, m + 1) \in {"+", "-"} THEN m + 2 ELSE m + 1)
         : m \in {ScanMantissa(s, i)}})

ScanQUOTED_STRING(s, i) ==
    IF Ch(s, i) \in {"\"", "'"}
    THEN LET k == Find(s, Ch(s, i), i + 1) IN IF k = 0 THEN 0 ELSE k + 1
    ELSE 0

ScanOP(s, i) ==
    IF Len(Sub(s, i, i + 1)) = 2 /\ Sub(s, i, i + 1) \in Ops2 THEN i + 2
    ELSE IF Ch(s, i) \in Ops1 THEN i + 1
    ELSE 0

Keyword(s, i, kw) == Sub(s, i, i + Len(kw) - 1) = kw

ParseFail == [ok |-> FALSE, ast |-> PyNone, pos |-> 0]
ParseOk(a, j) == [ok |-> TRUE, ast |-> a, pos |-> j]

\* AstTransformer.simple_value: the token at [i, j) as ("quoted", text) or a value
simple_value(s, i, j) ==
    LET t == Sub(s, i, j - 1) IN
    IF Ch(s, i) \in {"\"", "'"} THEN [quoted |-> TRUE, v |-> PyStr(Sub(t, 2, Len(t) - 1))]
    ELSE IF ScanSIGNED_NUMBER(s, i) = j
    THEN [quoted |-> FALSE,
          v |-> IF Contains(t, ".") THEN PyFloat(FloatReprOfText(t)) ELSE PyInt(IntOfText(t))]
    ELSE [quoted |-> FALSE, v |-> PyStr(t)]

\* int(v.value) of simple_value raises ValueError for the token at [i, j): a
\* SIGNED_NUMBER with an exponent and no "." (the transformer's VisitError is a
\* LarkError)
simple_value_raises(s, i, j) ==
    /\ Ch(s, i) \notin {"\"", "'"}
    /\ ScanSIGNED_NUMBER(s, i) = j
    /\ ~Contains(Sub(s, i, j - 1), ".")
    /\ Contains(Lower(Sub(s, i, j - 1)), "e")

\* AstTransformer.value
value(sv) == sv.v

\* AstTransformer.global_search
global_search(sv) ==
    IF sv.quoted THEN GlobalSearch(sv.v.s, TRUE) ELSE GlobalSearch(StrOf(sv.v), FALSE)

\* AstTransformer.comparison
comparison(f, o, hasValue, v) == Comparison(f, o, IF hasValue THEN v ELSE PyNone)

\* simple_value: QUOTED_STRING | UUID | SIGNED_NUMBER | IDENTIFIER | ASTERISK
ScanSimpleValue(s, i) ==
    LET Pick(q, n, id) ==
            IF q # 0 THEN q ELSE IF n # 0 THEN n ELSE IF id # 0 THEN id
            ELSE IF Ch(s, i) = "*" THEN i + 1 ELSE 0
    IN Pick(ScanQUOTED_STRING(s, i), ScanSIGNED_NUMBER(s, i), ScanIDENTIFIER(s, i))

\* field: IDENTIFIER ("." IDENTIFIER)* ; parts read so far, position after them
RECURSIVE ParseFieldRest(_, _, _)
ParseFieldRest(s, parts, i) ==
    LET Segment(k, e) ==
            IF e = 0 THEN [ok |-> FALSE, parts |-> parts, pos |-> 0]
            ELSE ParseFieldRest(s, Append(parts, Sub(s, k, e - 1)), e)
        After(j, k) ==
            IF Ch(s, j) = "." THEN Segment(k, ScanIDENTIFIER(s, k))
            ELSE [ok |-> TRUE, parts |-> parts, pos |-> j]
    IN After(SkipWs(s, i), SkipWs(s, SkipWs(s, i) + 1))

\* comparison: field OP value?   (the field has been read, i is at the OP)
ParseComparisonTail(s, parts, i) ==
    LET e == ScanOP(s, i)
        o == Sub(s, i, e - 1)
        j == SkipWs(s, e)
    IN IF e = 0 THEN ParseFail
       ELSE IF Keyword(s, j, "AND") \/ Keyword(s, j, "OR") \/ Ch(s, j) = ")" \/ j > Len(s)
       THEN ParseOk(comparison(parts, o, FALSE, PyNone), j)
       ELSE The({IF k = 0 \/ simple_value_raises(s, j, k) THEN ParseFail
                 ELSE ParseOk(comparison(parts, o, TRUE, value(simple_value(s, j, k))), k)
                 : k \in {ScanSimpleValue(s, j)}})

RECURSIVE ParseExpr(_, _)
RECURSIVE ParseExprRest(_, _, _, _)
RECURSIVE ParseTerm(_, _)
RECURSIVE ParseTermRest(_, _, _, _)
RECURSIVE ParseFactor(_, _)
RECURSIVE ParseItem(_, _)

\* ?item: "(" expr ")" | comparison | global_search
ParseItem(s, i0) ==
    LET i == SkipWs(s, i0)
        e == ScanIDENTIFIER(s, i)
        f == ParseFieldRest(s, <<Sub(s, i, e - 1)>>, e)
    IN IF Ch(s, i) = "("
       THEN The({IF r.ok /\ Ch(s, SkipWs(s, r.pos)) = ")"
                 THEN ParseOk(r.ast, SkipWs(s, r.pos) + 1) ELSE ParseFail
                 : r \in {ParseExpr(s, i + 1)}})
       ELSE IF e # 0 /\ ~f.ok THEN ParseFail
       ELSE IF e # 0 /\ ScanOP(s, f.pos) # 0 THEN ParseComparisonTail(s, f.parts, f.pos)
       ELSE IF e # 0 /\ Len(f.parts) > 1 THEN ParseFail
       ELSE The({IF k = 0 \/ simple_value_raises(s, i, k) THEN ParseFail
                 ELSE ParseOk(global_search(simple_value(s, i, k)), k)
                 : k \in {IF e # 0 THEN e ELSE ScanSimpleValue(s, i)}})

\* ?factor: NOT item | item        (AstTransformer.factor)
ParseFactor(s, i0) ==
    LET i == SkipWs(s, i0)
        negated == Keyword(s, i, "NOT")
    IN The({IF ~r.ok THEN ParseFail
            ELSE IF negated THEN ParseOk(Not(r.ast), r.pos) ELSE r
            : r \in {ParseItem(s, IF negated THEN i + 3 ELSE i)}})

\* ?term: term AND factor | factor   (AstTransformer.term); has_left: a factor
\* has been read and the next one needs an AND before it
ParseTermRest(s, has_left, left, i0) ==
    LET i == SkipWs(s, i0)
    IN IF has_left /\ ~Keyword(s, i, "AND") THEN ParseOk(left, i)
       ELSE The({IF ~r.ok THEN ParseFail
                 ELSE ParseTermRest(s, TRUE, IF has_left THEN And(left, r.ast) ELSE r.ast,
                                    r.pos)
                 : r \in {ParseFactor(s, IF has_left THEN i + 3 ELSE i)}})

ParseTerm(s, i) == ParseTermRest(s, FALSE, PyNone, i)

\* ?expr: expr OR term | term      (AstTransformer.expr)
ParseExprRest(s, has_left, left, i0) ==
    LET i == SkipWs(s, i0)
    IN IF has_left /\ ~Keyword(s, i, "OR") THEN ParseOk(left, i)
       ELSE The({IF ~r.ok THEN ParseFail
                 ELSE ParseExprRest(s, TRUE, IF has_left THEN Or(left, r.ast) ELSE r.ast,
                                    r.pos)
                 : r \in {ParseTerm(s, IF has_left THEN i + 2 ELSE i)}})

ParseExpr(s, i) == ParseExprRest(s, FALSE, PyNone, i)

\* self.transformer.transform(self.parser.parse(text)); ok = FALSE is a LarkError
Parse(s) ==
    The({IF r.ok /\ SkipWs(s, r.pos) > Len(s) THEN r ELSE ParseFail : r \in {ParseExpr(s, 1)}})


-----------------------------------------------------------------------------
(* Exceptions *)

NoError == [type |-> "none", field_name |-> "", operation |-> ""]
\* SearchValidationError(error_type, field_name, operation)
SearchValidationError(t, f, o) == [type |-> t, field_name |-> f, operation |-> o]
\* any other Python exception, by class name
PyException(cls) == [type |-> cls, field_name |-> "", operation |-> ""]

ValidationErrorTypes == {"invalid_field", "invalid_operation", "invalid_query"}

-----------------------------------------------------------------------------
(* parse_date_string *)

Num2(t, lo, hi) == Len(t) \in {1, 2} /\ AllDigits(t) /\ NatOf(t) >= lo /\ NatOf(t) <= hi

\* "%Y-%m-%d"
IsDateText(t) ==
    LET d1 == Find(t, "-", 1)
        d2 == IF d1 = 0 THEN 0 ELSE Find(t, "-", d1 + 1)
    IN /\ d1 = 5 /\ d2 # 0
       /\ AllDigits(Sub(t, 1, 4))
       /\ Num2(Sub(t, d1 + 1, d2 - 1), 1, 12)
       /\ Num2(From(t, d2), 1, 31)

\* "%H:%M:%S" and "%H:%M"
IsTimeText(t) ==
    LET c1 == Find(t, ":", 1)
        c2 == IF c1 = 0 THEN 0 ELSE Find(t, ":", c1 + 1)
    IN /\ c1 # 0
       /\ Num2(Sub(t, 1, c1 - 1), 0, 23)
       /\ IF c2 = 0 THEN Num2(From(t, c1), 0, 59)
          ELSE Num2(Sub(t, c1 + 1, c2 - 1), 0, 59) /\ Num2(From(t, c2), 0, 61)

\* TRUE when one of the five formats accepts the text (else ValueError)
parse_date_string_ok(date_str) ==
    LET t == StripSet(date_str, {"\"", "'"})
        sp == Find(t, " ", 1)
        tt == Find(t, "T", 1)
        cut == IF sp # 0 THEN sp ELSE tt
    IN IF cut = 0 THEN IsDateText(t)
       ELSE IsDateText(Sub(t, 1, cut - 1)) /\ IsTimeText(From(t, cut))

parse_date_string(date_str) == PyDatetime(StripSet(date_str, {"\"", "'"}))

-----------------------------------------------------------------------------
(* Field *)

OrderingOps == {">", "<", ">=", "<="}
ValueComparisonOps == {"=", "!=", ">", "<", ">=", "<="}
NumericCastOps == {"=", "!=", ">", "<", ">=", "<=", ":"}

\* int(value) raises OverflowError, which the validation does not catch
IntOverflows(v) == v.kind = "float" /\ v.s \in {"inf", "-inf"}

\* int(value) does not raise ValueError / TypeError
IntCoercible(v) ==
    CASE v.kind = "int" -> TRUE
      [] v.kind = "float" -> ~IntOverflows(v)
      [] v.kind = "str" ->
           LET t == Strip(v.s)
               body == IF Ch(t, 1) \in {"+", "-"} THEN From(t, 1) ELSE t
           IN AllDigits(body)
      [] OTHER -> FALSE

\* Field._validate_metadata_operation
_validate_metadata_operation(op, v, field_name) ==
    IF op = "" THEN NoError
    ELSE IF op \in OrderingOps /\ IsStr(v)
    THEN SearchValidationError("invalid_operation", field_name, op)
    ELSE NoError

\* _validate_operation_compatibility refusing the ordering operators on a
\* string field for numeric values only
_validate_operation_compatibility_numbers_only(field_name, op, v, available_metadata_fields, string_fields, id_fields) ==
    LET is_metadata_field ==
            field_name \in available_metadata_fields \/ field_name = "metadata"
    IN IF op = "" \/ v.kind = "none" THEN NoError
       ELSE IF /\ field_name \in string_fields /\ ~is_metadata_field
               /\ op \in OrderingOps /\ IsNumber(v)
       THEN SearchValidationError("invalid_operation", field_name, op)
       ELSE IF /\ (field_name \in id_fields \/ EndsWith(field_name, "_id"))
               /\ v.kind # "int" /\ op \in ValueComparisonOps
               /\ IntOverflows(v)
       THEN PyException("OverflowError")
       ELSE IF /\ (field_name \in id_fields \/ EndsWith(field_name, "_id"))
               /\ v.kind # "int" /\ op \in ValueComparisonOps
               /\ ~IntCoercible(v)
       THEN SearchValidationError("invalid_operation", field_name, op)
       ELSE IF is_metadata_field THEN _validate_metadata_operation(op, v, field_name)
       ELSE NoError

\* Field._validate_operation_compatibility
_validate_operation_compatibility(field_name, op, v, available_metadata_fields, string_fields, id_fields) ==
    LET is_metadata_field ==
            field_name \in available_metadata_fields \/ field_name = "metadata"
    IN IF op = "" \/ v.kind = "none" THEN NoError
       ELSE IF /\ field_name \in string_fields /\ ~is_metadata_field
               /\ op \in OrderingOps /\ (IsNumber(v) \/ IsStr(v))
       THEN SearchValidationError("invalid_operation", field_name, op)
       ELSE IF /\ (field_name \in id_fields \/ EndsWith(field_name, "_id"))
               /\ v.kind # "int" /\ op \in ValueComparisonOps
               /\ IntOverflows(v)
       THEN PyException("OverflowError")
       ELSE IF /\ (field_name \in id_fields \/ EndsWith(field_name, "_id"))
               /\ v.kind # "int" /\ op \in ValueComparisonOps
               /\ ~IntCoercible(v)
       THEN SearchValidationError("invalid_operation", field_name, op)
       ELSE IF is_metadata_field THEN _validate_metadata_operation(op, v, field_name)
       ELSE NoError

\* "->".join([f"'{part}'" for part in parts])
RECURSIVE QuotedPath(_)
QuotedPath(parts) ==
    IF Len(parts) = 0 THEN ""
    ELSE IF Len(parts) = 1 THEN "'" \o parts[1] \o "'"
    ELSE "'" \o parts[1] \o "'->" \o QuotedPath(Tail(parts))

\* col->'k1'->...->>'kn'
JsonField(col, path) ==
    IF Len(path) = 1 THEN col \o "->>'" \o path[1] \o "'"
    ELSE col \o "->" \o QuotedPath(SubSeq(path, 1, Len(path) - 1)) \o "->>'"
           \o path[Len(path)] \o "'"

\* the test that decides the ::numeric cast in Field.to_sql
NumericCast(v, op) == v.kind # "none" /\ IsNumber(v) /\ op \in NumericCastOps

BaseField(parts) ==
    IF EndsWith(parts[1], "_name") THEN Sub(parts[1], 1, Len(parts[1]) - 5) ELSE parts[1]

\* Field.to_sql looking a name up in the metadata keys before the columns
to_sql_metadata_first(parts, schema_mapping, v, op, available_metadata_fields, string_fields, id_fields, entity_fields) ==
    LET base_field == BaseField(parts)
        mapped == IF base_field \in DOMAIN schema_mapping THEN schema_mapping[base_field] ELSE ""
        verr == _validate_operation_compatibility(base_field, op, v,
                    available_metadata_fields, string_fields, id_fields)
        metadata_column ==
            IF "metadata" \in DOMAIN schema_mapping THEN schema_mapping["metadata"]
            ELSE "d.metadata"
        sql_column == IF mapped # "" THEN mapped ELSE "d." \o base_field \o "_id"
        explicit == JsonField(sql_column, SubSeq(parts, 2, Len(parts)))
    IN IF verr # NoError THEN [err |-> verr, sql |-> ""]
       ELSE IF base_field \in available_metadata_fields
       THEN [err |-> NoError,
             sql |-> IF NumericCast(v, op)
                     THEN "(" \o JsonField(metadata_column, parts) \o ")::numeric"
                     ELSE JsonField(metadata_column, parts)]
       ELSE IF mapped = "" /\ base_field \notin entity_fields
       THEN [err |-> SearchValidationError("invalid_field", Join(parts, "."), ""), sql |-> ""]
       ELSE IF base_field = "metadata" /\ Len(parts) > 1
       THEN [err |-> NoError,
             sql |-> IF NumericCast(v, op) THEN "(" \o explicit \o ")::numeric" ELSE explicit]
       ELSE [err |-> NoError, sql |-> sql_column]

\* Field.to_sql: [err, sql]
to_sql(parts, schema_mapping, v, op, available_metadata_fields, string_fields, id_fields, entity_fields) ==
    LET base_field == BaseField(parts)
        mapped == IF base_field \in DOMAIN schema_mapping THEN schema_mapping[base_field] ELSE ""
        verr == _validate_operation_compatibility(base_field, op, v,
                    available_metadata_fields, string_fields, id_fields)
        metadata_column ==
            IF "metadata" \in DOMAIN schema_mapping THEN schema_mapping["metadata"]
            ELSE "d.metadata"
        sql_column == IF mapped # "" THEN mapped ELSE "d." \o base_field \o "_id"
        explicit == JsonField(sql_column, SubSeq(parts, 2, Len(parts)))
    IN IF verr # NoError THEN [err |-> verr, sql |-> ""]
       ELSE IF mapped = "" /\ base_field \notin entity_fields
               /\ base_field \in available_metadata_fields
       THEN [err |-> NoError,
             sql |-> IF NumericCast(v, op)
                     THEN "(" \o JsonField(metadata_column, parts) \o ")::numeric"
                     ELSE JsonField(metadata_column, parts)]
       ELSE IF mapped = "" /\ base_field \notin entity_fields
       THEN [err |-> SearchValidationError("invalid_field", Join(parts, "."), ""), sql |-> ""]
       ELSE IF base_field = "metadata" /\ Len(parts) > 1
       THEN [err |-> NoError,
             sql |-> IF NumericCast(v, op) THEN "(" \o explicit \o ")::numeric" ELSE explicit]
       ELSE [err |-> NoError, sql |-> sql_column]


-----------------------------------------------------------------------------
(* SqlTranslator: the object state is the record tr *)

\* SqlTranslator.__init__
NewTranslator ==
    [schema_mapping |-> <<>>, global_search_fields |-> <<>>,
     available_metadata_fields |-> {}, string_fields |-> {}, id_fields |-> {},
     entity_fields |-> {}, params |-> <<>>, param_index |-> 0]

\* reset without its last two assignments: params and param_index are kept
reset_keeping_params(tr, schema_mapping, global_search_fields, available_metadata_fields, string_fields, id_fields, entity_fields) ==
    [schema_mapping |-> schema_mapping, global_search_fields |-> global_search_fields,
     available_metadata_fields |-> available_metadata_fields,
     string_fields |-> string_fields, id_fields |-> id_fields,
     entity_fields |-> entity_fields, params |-> tr.params, param_index |-> tr.param_index]

\* reset without its last assignment: the list is new, the index is kept
reset_keeping_index(tr, schema_mapping, global_search_fields, available_metadata_fields, string_fields, id_fields, entity_fields) ==
    [schema_mapping |-> schema_mapping, global_search_fields |-> global_search_fields,
     available_metadata_fields |-> available_metadata_fields,
     string_fields |-> string_fields, id_fields |-> id_fields,
     entity_fields |-> entity_fields, params |-> <<>>, param_index |-> tr.param_index]

\* SqlTranslator.reset (every argument is given by both callers)
reset(tr, schema_mapping, global_search_fields, available_metadata_fields, string_fields, id_fields, entity_fields) ==
    [schema_mapping |-> schema_mapping, global_search_fields |-> global_search_fields,
     available_metadata_fields |-> available_metadata_fields,
     string_fields |-> string_fields, id_fields |-> id_fields,
     entity_fields |-> entity_fields, params |-> <<>>, param_index |-> 0]

Placeholder(n) == "$" \o ToString(n)

\* _build_search_condition with the substring match for quoted terms too
_build_search_condition_substring(field_name, placeholder, is_quoted) ==
    IF Contains(Lower(field_name), "uuid")
    THEN field_name \o "::text ILIKE '%' || " \o placeholder \o " || '%'"
    ELSE field_name \o " ILIKE '%' || " \o placeholder \o " || '%'"

\* SqlTranslator._build_search_condition
_build_search_condition(field_name, placeholder, is_quoted) ==
    IF Contains(Lower(field_name), "uuid")
    THEN IF is_quoted THEN field_name \o "::text ~* " \o placeholder
         ELSE field_name \o "::text ILIKE '%' || " \o placeholder \o " || '%'"
    ELSE IF is_quoted THEN field_name \o " ~* " \o placeholder
         ELSE field_name \o " ILIKE '%' || " \o placeholder \o " || '%'"

\* SqlTranslator._build_global_search_clause: [clause, placeholder]
_build_global_search_clause(search_term, is_quoted, field_list, param_offset) ==
    LET placeholder == Placeholder(param_offset + 1)
        conditions == [i \in 1..Len(field_list) |->
                          _build_search_condition(field_list[i], placeholder, is_quoted)]
    IN IF Strip(search_term) = "" THEN [clause |-> "TRUE", placeholder |-> ""]
       ELSE IF Len(field_list) = 0 THEN [clause |-> "TRUE", placeholder |-> ""]
       ELSE [clause |-> "(" \o Join(conditions, " OR ") \o ")", placeholder |-> placeholder]

\* _translate_global_search appending the parameter without counting it
_translate_global_search_uncounted(tr, node) ==
    LET search_value == Strip(node.value)
        built == _build_global_search_clause(search_value, node.is_quoted,
                                             tr.global_search_fields, tr.param_index)
    IN IF search_value \in {"*", ""} THEN [tr |-> tr, sql |-> "TRUE", err |-> NoError]
       ELSE IF built.placeholder # ""
       THEN [tr |-> [tr EXCEPT !.params = Append(@, PyStr(search_value))],
             sql |-> built.clause, err |-> NoError]
       ELSE [tr |-> tr, sql |-> built.clause, err |-> NoError]

\* SqlTranslator._translate_global_search: [tr, sql, err]
_translate_global_search(tr, node) ==
    LET search_value == Strip(node.value)
        built == _build_global_search_clause(search_value, node.is_quoted,
                                             tr.global_search_fields, tr.param_index)
    IN IF search_value \in {"*", ""} THEN [tr |-> tr, sql |-> "TRUE", err |-> NoError]
       ELSE IF built.placeholder # ""
       THEN [tr |-> [tr EXCEPT !.param_index = @ + 1,
                               !.params = Append(@, PyStr(search_value))],
             sql |-> built.clause, err |-> NoError]
       ELSE [tr |-> tr, sql |-> built.clause, err |-> NoError]

\* the test both existence translations use to pick the JSON form
IsJsonField(tr, parts) ==
    (parts[1] = "metadata" /\ Len(parts) > 1) \/ parts[1] \in tr.available_metadata_fields

JsonPathOf(tr, parts) ==
    IF parts[1] \in tr.available_metadata_fields THEN parts ELSE SubSeq(parts, 2, Len(parts))

\* _translate_field_exists with the JSON tests numbering their placeholder
\* without appending its parameter
_translate_field_exists_unbound(tr, parts, sql_field) ==
    LET json_path == JsonPathOf(tr, parts)
        placeholder == Placeholder(tr.param_index + 1)
    IN IF IsJsonField(tr, parts)
       THEN IF Len(json_path) = 1
            THEN [tr |-> [tr EXCEPT !.param_index = @ + 1],
                  sql |-> "d.metadata ? " \o placeholder, err |-> NoError]
            ELSE [tr |-> [tr EXCEPT !.param_index = @ + 1],
                  sql |-> "jsonb_path_exists(d.metadata, " \o placeholder \o ")",
                  err |-> NoError]
       ELSE [tr |-> tr, sql |-> sql_field \o " IS NOT NULL", err |-> NoError]

\* SqlTranslator._translate_field_exists: [tr, sql, err]
_translate_field_exists(tr, parts, sql_field) ==
    LET json_path == JsonPathOf(tr, parts)
        placeholder == Placeholder(tr.param_index + 1)
    IN IF IsJsonField(tr, parts)
       THEN IF Len(json_path) = 1
            THEN [tr |-> [tr EXCEPT !.param_index = @ + 1,
                                    !.params = Append(@, PyStr(json_path[1]))],
                  sql |-> "d.metadata ? " \o placeholder, err |-> NoError]
            ELSE [tr |-> [tr EXCEPT !.param_index = @ + 1,
                                    !.params = Append(@, PyStr("$." \o Join(json_path, ".")))],
                  sql |-> "jsonb_path_exists(d.metadata, " \o placeholder \o ")",
                  err |-> NoError]
       ELSE [tr |-> tr, sql |-> sql_field \o " IS NOT NULL", err |-> NoError]

\* _translate_field_not_exists with the key test left unnegated
_translate_field_not_exists_key_test(tr, parts, sql_field) ==
    LET json_path == JsonPathOf(tr, parts)
        placeholder == Placeholder(tr.param_index + 1)
    IN IF IsJsonField(tr, parts)
       THEN IF Len(json_path) = 1
            THEN [tr |-> [tr EXCEPT !.param_index = @ + 1,
                                    !.params = Append(@, PyStr(json_path[1]))],
                  sql |-> "d.metadata ? " \o placeholder, err |-> NoError]
            ELSE [tr |-> [tr EXCEPT !.param_index = @ + 1,
                                    !.params = Append(@, PyStr("$." \o Join(json_path, ".")))],
                  sql |-> "NOT jsonb_path_exists(d.metadata, " \o placeholder \o ")",
                  err |-> NoError]
       ELSE [tr |-> tr, sql |-> sql_field \o " IS NULL", err |-> NoError]

\* SqlTranslator._translate_field_not_exists: [tr, sql, err]
_translate_field_not_exists(tr, parts, sql_field) ==
    LET json_path == JsonPathOf(tr, parts)
        placeholder == Placeholder(tr.param_index + 1)
    IN IF IsJsonField(tr, parts)
       THEN IF Len(json_path) = 1
            THEN [tr |-> [tr EXCEPT !.param_index = @ + 1,
                                    !.params = Append(@, PyStr(json_path[1]))],
                  sql |-> "NOT (d.metadata ? " \o placeholder \o ")", err |-> NoError]
            ELSE [tr |-> [tr EXCEPT !.param_index = @ + 1,
                                    !.params = Append(@, PyStr("$." \o Join(json_path, ".")))],
                  sql |-> "NOT jsonb_path_exists(d.metadata, " \o placeholder \o ")",
                  err |-> NoError]
       ELSE [tr |-> tr, sql |-> sql_field \o " IS NULL", err |-> NoError]

\* the operator branches with = always translated to the SQL operator =
SqlOpAndParam_plain_equality(op, v, is_last_edited_at) ==
    CASE op = ":" -> [sql_op |-> "ILIKE", param |-> PyStr("%" \o StrOf(v) \o "%")]
      [] op = "=" -> [sql_op |-> "=", param |-> v]
      [] op = "=~" -> [sql_op |-> "~*", param |-> v]
      [] op = "!~" -> [sql_op |-> "!~*", param |-> v]
      [] op = "!:" -> [sql_op |-> "NOT_ILIKE", param |-> PyStr("%" \o StrOf(v) \o "%")]
      [] op = "#" -> [sql_op |-> "SIMILARITY", param |-> v]
      [] op = "!=" -> IF IsStr(v) /\ ~is_last_edited_at
                      THEN [sql_op |-> "NOT_ILIKE", param |-> v]
                      ELSE [sql_op |-> "!=", param |-> v]
      [] OTHER -> [sql_op |-> op, param |-> v]

\* the operator branches with != always translated to the SQL operator !=
SqlOpAndParam_plain_inequality(op, v, is_last_edited_at) ==
    CASE op = ":" -> [sql_op |-> "ILIKE", param |-> PyStr("%" \o StrOf(v) \o "%")]
      [] op = "=" -> IF IsStr(v) /\ ~is_last_edited_at
                     THEN [sql_op |-> "ILIKE", param |-> v]
                     ELSE [sql_op |-> "=", param |-> v]
      [] op = "=~" -> [sql_op |-> "~*", param |-> v]
      [] op = "!~" -> [sql_op |-> "!~*", param |-> v]
      [] op = "!:" -> [sql_op |-> "NOT_ILIKE", param |-> PyStr("%" \o StrOf(v) \o "%")]
      [] op = "#" -> [sql_op |-> "SIMILARITY", param |-> v]
      [] OTHER -> [sql_op |-> op, param |-> v]

\* the (sql_op, param_value) pair chosen by the operator branches
SqlOpAndParam(op, v, is_last_edited_at) ==
    CASE op = ":" -> [sql_op |-> "ILIKE", param |-> PyStr("%" \o StrOf(v) \o "%")]
      [] op = "=" -> IF IsStr(v) /\ ~is_last_edited_at
                     THEN [sql_op |-> "ILIKE", param |-> v]
                     ELSE [sql_op |-> "=", param |-> v]
      [] op = "=~" -> [sql_op |-> "~*", param |-> v]
      [] op = "!~" -> [sql_op |-> "!~*", param |-> v]
      [] op = "!:" -> [sql_op |-> "NOT_ILIKE", param |-> PyStr("%" \o StrOf(v) \o "%")]
      [] op = "#" -> [sql_op |-> "SIMILARITY", param |-> v]
      [] op = "!=" -> IF IsStr(v) /\ ~is_last_edited_at
                      THEN [sql_op |-> "NOT_ILIKE", param |-> v]
                      ELSE [sql_op |-> "!=", param |-> v]
      [] OTHER -> [sql_op |-> op, param |-> v]

\* the valueless last_edited_at: test keeping the index it was given
HasBeenEdited_counted(tr, sql_field) ==
    [tr |-> [tr EXCEPT !.param_index = @ + 1], sql |-> sql_field \o " IS NOT NULL",
     err |-> NoError]

\* _translate_comparison, the branch of last_edited_at: without a value: the
\* index incremented for the placeholder is decremented again
HasBeenEdited(tr, sql_field) ==
    [tr |-> [tr EXCEPT !.param_index = (@ + 1) - 1], sql |-> sql_field \o " IS NOT NULL",
     err |-> NoError]

\* SqlTranslator._translate_comparison: [tr, sql, err]
_translate_comparison(tr, node) ==
    LET op == node.op
        v == node.value
        placeholder == Placeholder(tr.param_index + 1)
        Bound(sql_field, is_last_edited_at, sql_op, param_value) ==
            [tr |-> [tr EXCEPT !.param_index = @ + 1, !.params = Append(@, param_value)],
             err |-> NoError,
             sql |-> IF is_last_edited_at /\ op \in {">", "<", ">=", "<=", "!="}
                     THEN IF sql_op = "NOT_ILIKE"
                          THEN "(" \o sql_field \o " IS NOT NULL AND NOT (" \o sql_field
                                 \o " ILIKE " \o placeholder \o "))"
                          ELSE IF sql_op = "SIMILARITY"
                          THEN "(" \o sql_field \o " IS NOT NULL AND similarity("
                                 \o placeholder \o ", " \o sql_field \o ") > 0.7)"
                          ELSE "(" \o sql_field \o " IS NOT NULL AND " \o sql_field \o " "
                                 \o sql_op \o " " \o placeholder \o ")"
                     ELSE IF sql_op = "NOT_ILIKE"
                     THEN "NOT (" \o sql_field \o " ILIKE " \o placeholder \o ")"
                     ELSE IF sql_op = "SIMILARITY"
                     THEN "similarity(" \o placeholder \o ", " \o sql_field \o ") > 0.7"
                     ELSE sql_field \o " " \o sql_op \o " " \o placeholder]
        Converted(sql_field, is_last_edited_at, chosen) ==
            Bound(sql_field, is_last_edited_at, chosen.sql_op,
                  IF /\ is_last_edited_at /\ IsStr(chosen.param) /\ op \in ValueComparisonOps
                     /\ parse_date_string_ok(chosen.param.s)
                  THEN parse_date_string(chosen.param.s)
                  ELSE chosen.param)
        Resolved(sql_field, is_last_edited_at) ==
            IF op = ":" /\ v = PyStr("*") THEN _translate_field_exists(tr, node.field, sql_field)
            ELSE IF op = "!:" /\ v = PyStr("*")
            THEN _translate_field_not_exists(tr, node.field, sql_field)
            ELSE IF op = ":" /\ is_last_edited_at /\ (v = PyStr("") \/ v.kind = "none")
            THEN HasBeenEdited(tr, sql_field)
            ELSE Converted(sql_field, is_last_edited_at,
                           SqlOpAndParam(op, v, is_last_edited_at))
        WithField(r) ==
            IF r.err # NoError THEN [tr |-> tr, sql |-> "", err |-> r.err]
            ELSE Resolved(r.sql, node.field[1] = "last_edited_at"
                                   \/ EndsWith(r.sql, "last_edited_at"))
    IN WithField(to_sql(node.field, tr.schema_mapping, node.value, node.op,
                        tr.available_metadata_fields, tr.string_fields, tr.id_fields,
                        tr.entity_fields))

\* SqlTranslator.translate: [tr, sql, err]; an exception of a child propagates
\* with the translator left as the child left it
RECURSIVE translate(_, _)
translate(tr, node) ==
    CASE node.node = "Comparison" -> _translate_comparison(tr, node)
      [] node.node = "GlobalSearch" -> _translate_global_search(tr, node)
      [] node.node = "Not" ->
           LET t == translate(tr, node.term)
           IN IF t.err # NoError THEN t
              ELSE [tr |-> t.tr, sql |-> "NOT (" \o t.sql \o ")", err |-> NoError]
      [] node.node \in {"And", "Or"} ->
           LET l == translate(tr, node.left)
               r == translate(l.tr, node.right)
               kw == IF node.node = "And" THEN " AND " ELSE " OR "
           IN IF l.err # NoError THEN l
              ELSE IF r.err # NoError THEN r
              ELSE [tr |-> r.tr, sql |-> "(" \o l.sql \o kw \o r.sql \o ")", err |-> NoError]


-----------------------------------------------------------------------------
(* Regular expressions of the module, as scanners *)

HexChars == Digits \cup {"a", "b", "c", "d", "e", "f", "A", "B", "C", "D", "E", "F"}
WordChars == LowerLetters \cup UpperLetters \cup Digits \cup {"_"}
QuoteChars == {"\"", "'"}

\* is_uuid_format: UUID_PATTERN.match(value.strip())
is_uuid_format(v) ==
    LET t == Strip(v) IN
    /\ Len(t) = 36
    /\ \A i \in 1..36 : IF i \in {9, 14, 19, 24} THEN Ch(t, i) = "-" ELSE Ch(t, i) \in HexChars

\* str.split(sep)
RECURSIVE SplitOn(_, _)
SplitOn(s, sep) ==
    LET k == Find(s, sep, 1)
    IN IF k = 0 THEN <<s>>
       ELSE <<Sub(s, 1, k - 1)>> \o SplitOn(From(s, k + Len(sep) - 1), sep)

\* end (exclusive) of a match of \s+AND\s+ (IGNORECASE) starting at i, 0 if none
MatchAndSeparator(s, i) ==
    LET a == RunEnd(s, i, Whitespace)
        b == RunEnd(s, a + 3, Whitespace)
    IN IF a > i /\ Upper(Sub(s, a, a + 2)) = "AND" /\ b > a + 3 THEN b ELSE 0

\* re.split(r"\s+AND\s+", s, flags=re.IGNORECASE)
RECURSIVE SplitAndFrom(_, _, _)
SplitAndFrom(s, start, i) ==
    IF i > Len(s) THEN <<Sub(s, start, Len(s))>>
    ELSE LET e == MatchAndSeparator(s, i)
         IN IF e # 0 THEN <<Sub(s, start, i - 1)>> \o SplitAndFrom(s, e, e)
            ELSE SplitAndFrom(s, start, i + 1)

SplitAnd(s) == SplitAndFrom(s, 1, 1)

\* re.findall(r'["\']([^"\']+)["\']', s): the first group, found |-> FALSE if the
\* list is empty
RECURSIVE FirstQuotedFrom(_, _)
FirstQuotedFrom(s, i) ==
    IF i > Len(s) THEN [found |-> FALSE, text |-> ""]
    ELSE LET j == RunEnd(s, i + 1, {Ch(s, k) : k \in 1..Len(s)} \ QuoteChars)
         IN IF Ch(s, i) \in QuoteChars /\ j > i + 1 /\ j <= Len(s)
            THEN [found |-> TRUE, text |-> Sub(s, i + 1, j - 1)]
            ELSE FirstQuotedFrom(s, i + 1)

FirstQuoted(s) == FirstQuotedFrom(s, 1)

\* re.sub(r"\b(AND|OR|NOT)\b", " ", s, flags=re.IGNORECASE)
RECURSIVE SubKeywordsFrom(_, _)
SubKeywordsFrom(s, i) ==
    IF i > Len(s) THEN ""
    ELSE LET n == IF Upper(Sub(s, i, i + 2)) \in {"AND", "NOT"} THEN 3
                  ELSE IF Upper(Sub(s, i, i + 1)) = "OR" THEN 2 ELSE 0
         IN IF /\ n # 0
               /\ Ch(s, i - 1) \notin WordChars
               /\ Ch(s, i + n) \notin WordChars
            THEN " " \o SubKeywordsFrom(s, i + n)
            ELSE Ch(s, i) \o SubKeywordsFrom(s, i + 1)

SubKeywords(s) == SubKeywordsFrom(s, 1)

\* end (exclusive) of a match of \w+\s*=\s*["\'][^"\']*["\'] starting at i, 0 if none
MatchFieldEqQuoted(s, i) ==
    LET a == RunEnd(s, i, WordChars)
        b == RunEnd(s, a, Whitespace)
        c == RunEnd(s, b + 1, Whitespace)
        d == RunEnd(s, c + 1, {Ch(s, k) : k \in 1..Len(s)} \ QuoteChars)
    IN IF a > i /\ Ch(s, b) = "=" /\ Ch(s, c) \in QuoteChars /\ d <= Len(s) THEN d + 1 ELSE 0

\* re.sub(r'\w+\s*=\s*["\'][^"\']*["\']', " ", s)
RECURSIVE SubFieldEqQuotedFrom(_, _)
SubFieldEqQuotedFrom(s, i) ==
    IF i > Len(s) THEN ""
    ELSE LET e == MatchFieldEqQuoted(s, i)
         IN IF e # 0 THEN " " \o SubFieldEqQuotedFrom(s, e)
            ELSE Ch(s, i) \o SubFieldEqQuotedFrom(s, i + 1)

SubFieldEqQuoted(s) == SubFieldEqQuotedFrom(s, 1)

\* re.sub(r"\s+", " ", s)
RECURSIVE NormalizeWsFrom(_, _)
NormalizeWsFrom(s, i) ==
    IF i > Len(s) THEN ""
    ELSE IF Ch(s, i) \in Whitespace
    THEN " " \o NormalizeWsFrom(s, RunEnd(s, i, Whitespace))
    ELSE Ch(s, i) \o NormalizeWsFrom(s, i + 1)

NormalizeWs(s) == NormalizeWsFrom(s, 1)

\* the clean-up both recovery steps apply to an unquoted search text
CleanSearchText(s) == Strip(NormalizeWs(SubFieldEqQuoted(SubKeywords(s))))


-----------------------------------------------------------------------------
(* sql_utils.generate_unique_table_alias *)

reserved_keywords ==
    {"for", "from", "where", "select", "update", "delete", "insert", "join", "on", "as",
     "in", "or", "and", "not", "if", "order", "by", "group", "having", "union", "all",
     "exists", "case", "when", "then", "else", "end", "distinct", "limit", "offset",
     "into", "values", "set", "create", "drop", "alter", "table", "index", "view",
     "trigger", "procedure", "function", "schema", "database", "constraint", "primary",
     "foreign", "key", "unique", "null", "default", "check", "references"}

generate_unique_table_alias(entity_key, used_aliases) ==
    LET long == Len(entity_key) > 3
        Numbered(alias) ==
            IF alias \notin used_aliases THEN alias
            ELSE alias \o ToString(
                     CHOOSE c \in 1..(Cardinality(used_aliases) + 1) :
                        /\ (alias \o ToString(c)) \notin used_aliases
                        /\ \A b \in 1..(c - 1) : (alias \o ToString(b)) \in used_aliases)
        Longer(alias) ==
            Numbered(IF alias \in used_aliases /\ long /\ Len(alias) < 4
                     THEN Upto(entity_key, 4) ELSE alias)
        Initial(alias) ==
            Longer(IF Lower(alias) \in reserved_keywords THEN Ch(entity_key, 1) \o "_t"
                   ELSE alias)
        Prefix(alias) ==
            Initial(IF Lower(alias) \in reserved_keywords /\ long THEN Upto(entity_key, 4)
                    ELSE alias)
    IN Prefix(IF long THEN Upto(entity_key, 3) ELSE entity_key)

\* the aliases of a list of entity keys, each added to used_aliases in turn
RECURSIVE AssignAliases(_, _)
AssignAliases(keys, used_aliases) ==
    LET Next_(a) == <<a>> \o AssignAliases(Tail(keys), used_aliases \cup {a})
    IN IF Len(keys) = 0 THEN <<>>
       ELSE Next_(generate_unique_table_alias(keys[1], used_aliases))

-----------------------------------------------------------------------------
(* What the database and its schema discovery report: a snapshot is         *)
(* [columns, primary_key, navigation_tables, metadata_keys, nested_keys]   *)

\* config["application"]["main_table"]
MainTable == "entities"

Column(name, type, fk) == [column_name |-> name, data_type |-> type, is_foreign_key |-> fk]
NavTable(key, table, pk, name) ==
    [entity_key |-> key, table_name |-> table, primary_key |-> pk, name_column |-> name]

SnapshotA ==
    [columns |-> <<Column("entity_id", "integer", FALSE), Column("name", "text", FALSE),
                   Column("uuid", "uuid", FALSE), Column("metadata", "jsonb", FALSE),
                   Column("size", "integer", FALSE),
                   Column("status", "character varying(50)", FALSE),
                   Column("last_edited_at", "timestamp with time zone", FALSE),
                   Column("category_id", "integer", TRUE)>>,
     primary_key |-> "entity_id",
     navigation_tables |-> <<NavTable("category", "categories", "category_id", "name")>>,
     metadata_keys |-> {"tag", "run", "__tag__lock__"},
     nested_keys |-> {"run.energy"}]

\* the schema after a migration: a detector relation, a status key in metadata
SnapshotB ==
    [columns |-> <<Column("entity_id", "integer", FALSE), Column("name", "text", FALSE),
                   Column("uuid", "uuid", FALSE), Column("metadata", "jsonb", FALSE),
                   Column("size", "integer", FALSE),
                   Column("status", "character varying(50)", FALSE),
                   Column("last_edited_at", "timestamp with time zone", FALSE),
                   Column("category_id", "integer", TRUE),
                   Column("detector_id", "integer", TRUE),
                   Column("external_id", "text", FALSE)>>,
     primary_key |-> "entity_id",
     navigation_tables |-> <<NavTable("category", "categories", "category_id", "name"),
                             NavTable("detector", "detectors", "detector_id", "label")>>,
     metadata_keys |-> {"tag", "run", "status", "lumi"},
     nested_keys |-> {"run.energy", "run.__x__lock__"}]

Snapshots == {SnapshotA, SnapshotB}

Range(f) == {f[i] : i \in DOMAIN f}
EntityKeys(snap) == [i \in 1..Len(snap.navigation_tables) |-> snap.navigation_tables[i].entity_key]
NavOf(navs, key) == CHOOSE t \in Range(navs) : t.entity_key = key

-----------------------------------------------------------------------------
(* schema_mapping_module *)

\* _create_base_mapping
_create_base_mapping(snap) ==
    LET cols == {c.column_name : c \in Range(snap.columns)}
        keys == cols \cup (IF "metadata" \in cols THEN {"metadata_text"} ELSE {})
    IN [k \in keys |-> IF k \in cols THEN "d." \o k ELSE "jsonb_values_to_text(d.metadata)"]

\* _build_navigation_aliases
_build_navigation_aliases(navs) ==
    LET keys == [i \in 1..Len(navs) |-> navs[i].entity_key]
        Last(k) == CHOOSE j \in 1..Len(keys) :
                      keys[j] = k /\ \A h \in (j + 1)..Len(keys) : keys[h] # k
        Named(aliases) ==
            [k \in Range(keys) |-> aliases[Last(k)] \o "." \o navs[Last(k)].name_column]
    IN Named(AssignAliases(keys, {"d"}))

\* generate_schema_mapping: {**base_mapping, **navigation_mapping}
generate_schema_mapping(snap) ==
    LET Merged(base, nav) ==
            [k \in DOMAIN base \cup DOMAIN nav |-> IF k \in DOMAIN nav THEN nav[k] ELSE base[k]]
    IN Merged(_create_base_mapping(snap), _build_navigation_aliases(snap.navigation_tables))


-----------------------------------------------------------------------------
(* State *)

VARIABLES
    db,                         \* the snapshot the database currently reports
    schema_mapping,             \* QueryParser.schema_mapping
    available_metadata_fields,  \* QueryParser.available_metadata_fields
    string_fields,              \* QueryParser.string_fields
    id_fields,                  \* QueryParser.id_fields
    entity_fields,              \* QueryParser.entity_fields
    navigation_analysis,        \* QueryParser.navigation_analysis
    entity_aliases,             \* QueryParser.entity_aliases
    from_and_joins,             \* QueryParser.from_and_joins
    translator,                 \* QueryParser.translator (one SqlTranslator object)
    setup_pc,                   \* where the setup() coroutine stands
    setups,                     \* number of setup() runs started
    request,                    \* arguments of the parse_query call in hand
    result,                     \* what that call returned or raised
    calls                       \* per concurrent caller: its parse_query activation

parserVars == <<schema_mapping, available_metadata_fields, string_fields, id_fields,
                entity_fields, navigation_analysis, entity_aliases, from_and_joins>>
vars == <<db, schema_mapping, available_metadata_fields, string_fields, id_fields,
          entity_fields, navigation_analysis, entity_aliases, from_and_joins,
          translator, setup_pc, setups, request, result, calls>>

\* the QueryParser object as a value
Self ==
    [schema_mapping |-> schema_mapping,
     available_metadata_fields |-> available_metadata_fields,
     string_fields |-> string_fields, id_fields |-> id_fields,
     entity_fields |-> entity_fields, navigation_analysis |-> navigation_analysis,
     entity_aliases |-> entity_aliases, from_and_joins |-> from_and_joins]

\* navigation_analysis = {} of QueryParser.__init__
EmptyAnalysis ==
    [loaded |-> FALSE, navigation_tables |-> <<>>,
     main_table_schema |-> [columns |-> <<>>, primary_key |-> ""]]

-----------------------------------------------------------------------------
(* QueryParser.setup and the fetches it awaits *)

\* SQL: key LIKE '__%__lock__'  (an underscore matches any one character)
LikeLockKey(k) == Len(k) >= 10 /\ Sub(k, Len(k) - 5, Len(k) - 2) = "lock"
\* SQL: key LIKE '__%__lock__%' OR key LIKE '%__lock__'
LikeNestedLockKey(k) ==
    \/ \E i \in 5..Len(k) : Sub(k, i, i + 3) = "lock" /\ i + 5 <= Len(k)
    \/ Len(k) >= 8 /\ Sub(k, Len(k) - 5, Len(k) - 2) = "lock"

\* QueryParser._fetch_available_metadata_fields
_fetch_available_metadata_fields(snap) ==
    {k \in snap.metadata_keys :
        ~LikeLockKey(k) /\ ~(StartsWith(k, "__") /\ EndsWith(k, "__lock__"))}
    \cup {k \in snap.nested_keys : ~LikeNestedLockKey(k) /\ ~Contains(k, "__lock__")}

\* QueryParser._is_string_type
_is_string_type(data_type) ==
    \/ data_type \in {"text", "varchar", "character varying", "character", "char", "uuid",
                      "name", "inet", "cidr", "macaddr", "macaddr8", "xml"}
    \/ \E t \in {"varchar", "character varying", "character", "char"} :
          StartsWith(data_type, t \o "(") \/ StartsWith(data_type, t \o " (")

\* _fetch_field_type_classifications, the loop over the main table's columns
ClassifyStringColumns(snap) ==
    {c.column_name : c \in {x \in Range(snap.columns) : _is_string_type(Lower(x.data_type))}}
ClassifyIdColumns(snap) ==
    {c.column_name : c \in {x \in Range(snap.columns) :
                               x.is_foreign_key \/ EndsWith(x.column_name, "_id")}}

\* QueryParser._build_dynamic_joins: [aliases, from_and_joins]
_build_dynamic_joins(analysis, old_aliases) ==
    LET navs == analysis.navigation_tables
        keys == [i \in 1..Len(navs) |-> navs[i].entity_key]
        Joined(aliases) ==
            [aliases |-> [k \in DOMAIN old_aliases \cup Range(keys) |->
                            IF k \in Range(keys)
                            THEN aliases[CHOOSE j \in 1..Len(keys) :
                                            keys[j] = k
                                            /\ \A h \in (j + 1)..Len(keys) : keys[h] # k]
                            ELSE old_aliases[k]],
             from_and_joins |->
                 Join(<<"FROM " \o MainTable \o " d">>
                        \o [i \in 1..Len(navs) |->
                              "            LEFT JOIN " \o navs[i].table_name \o " "
                                \o aliases[i] \o " ON d." \o navs[i].entity_key
                                \o "_id = " \o aliases[i] \o "." \o navs[i].primary_key],
                      "\n")]
    IN Joined(AssignAliases(keys, {"d"}))

\* setup() is entered (self.config = get_config())
SetupStart(limit) ==
    /\ setup_pc \in {"new", "done"}
    /\ setups < limit
    /\ setup_pc' = "mapping"
    /\ setups' = setups + 1
    /\ UNCHANGED <<db, parserVars, translator, request, result, calls>>

\* self.schema_mapping = await self.database.generate_schema_mapping()
SetupMapping ==
    /\ setup_pc = "mapping"
    /\ schema_mapping' = generate_schema_mapping(db)
    /\ setup_pc' = "metadata"
    /\ UNCHANGED <<db, available_metadata_fields, string_fields, id_fields, entity_fields,
                   navigation_analysis, entity_aliases, from_and_joins, translator, setups,
                   request, result, calls>>

\* self.available_metadata_fields = await self._fetch_available_metadata_fields()
SetupMetadata ==
    /\ setup_pc = "metadata"
    /\ available_metadata_fields' = _fetch_available_metadata_fields(db)
    /\ setup_pc' = "classify"
    /\ UNCHANGED <<db, schema_mapping, string_fields, id_fields, entity_fields,
                   navigation_analysis, entity_aliases, from_and_joins, translator, setups,
                   request, result, calls>>

\* _fetch_field_type_classifications up to its await of analyze_navigation_structure
SetupClassifyColumns ==
    /\ setup_pc = "classify"
    /\ string_fields' = ClassifyStringColumns(db)
    /\ id_fields' = ClassifyIdColumns(db)
    /\ entity_fields' = {}
    /\ setup_pc' = "classify_nav"
    /\ UNCHANGED <<db, schema_mapping, available_metadata_fields, navigation_analysis,
                   entity_aliases, from_and_joins, translator, setups, request, result, calls>>

\* _fetch_field_type_classifications after that await
SetupClassifyNavigation ==
    /\ setup_pc = "classify_nav"
    /\ string_fields' = string_fields \cup Range(EntityKeys(db))
                          \cup {k \o "_name" : k \in Range(EntityKeys(db))}
    /\ entity_fields' = entity_fields \cup Range(EntityKeys(db))
    /\ setup_pc' = "navigation"
    /\ UNCHANGED <<db, schema_mapping, available_metadata_fields, id_fields,
                   navigation_analysis, entity_aliases, from_and_joins, translator, setups,
                   request, result, calls>>

\* self.navigation_analysis = await schema_discovery.analyze_navigation_structure(...)
SetupNavigation ==
    /\ setup_pc = "navigation"
    /\ navigation_analysis' =
          [loaded |-> TRUE, navigation_tables |-> db.navigation_tables,
           main_table_schema |-> [columns |-> db.columns, primary_key |-> db.primary_key]]
    /\ setup_pc' = "joins"
    /\ UNCHANGED <<db, schema_mapping, available_metadata_fields, string_fields, id_fields,
                   entity_fields, entity_aliases, from_and_joins, translator, setups,
                   request, result, calls>>

\* the session is released, then self._build_dynamic_joins()
SetupJoins ==
    /\ setup_pc = "joins"
    /\ \E j \in {_build_dynamic_joins(navigation_analysis, entity_aliases)} :
          entity_aliases' = j.aliases /\ from_and_joins' = j.from_and_joins
    /\ setup_pc' = "done"
    /\ UNCHANGED <<db, schema_mapping, available_metadata_fields, string_fields, id_fields,
                   entity_fields, navigation_analysis, translator, setups, request, result,
                   calls>>


-----------------------------------------------------------------------------
(* QueryParser: query assembly and recovery.  self is the record Self.      *)
(* Layout whitespace of the f-string templates is reduced to one newline.   *)

KeyError == PyException("KeyError")

\* QueryParser._build_dynamic_select_fields: [err, text]
_build_dynamic_select_fields(self) ==
    LET cols == self.navigation_analysis.main_table_schema.columns
        navs == self.navigation_analysis.navigation_tables
        main == [i \in 1..Len(cols) |-> "d." \o cols[i].column_name]
        named == [i \in 1..Len(navs) |->
                    "                    " \o self.entity_aliases[navs[i].entity_key] \o "."
                      \o navs[i].name_column \o " as " \o navs[i].entity_key \o "_name"]
    IN IF ~self.navigation_analysis.loaded THEN [err |-> KeyError, text |-> ""]
       ELSE IF \E i \in 1..Len(navs) : navs[i].entity_key \notin DOMAIN self.entity_aliases
       THEN [err |-> KeyError, text |-> ""]
       ELSE [err |-> NoError, text |-> Join(main \o named, ",\n")]

\* QueryParser._build_dynamic_global_search_fields: [err, fields]
_build_dynamic_global_search_fields(self, search_term) ==
    LET navs == self.navigation_analysis.navigation_tables
        own == <<"d.name", "jsonb_values_to_text(d.metadata)">>
                 \o (IF search_term # "" /\ is_uuid_format(search_term) THEN <<"d.uuid">> ELSE <<>>)
        named == [i \in 1..Len(navs) |->
                    self.entity_aliases[navs[i].entity_key] \o "." \o navs[i].name_column]
    IN IF ~self.navigation_analysis.loaded THEN [err |-> KeyError, fields |-> <<>>]
       ELSE IF \E i \in 1..Len(navs) : navs[i].entity_key \notin DOMAIN self.entity_aliases
       THEN [err |-> KeyError, fields |-> <<>>]
       ELSE [err |-> NoError, fields |-> own \o named]

\* QueryParser._extract_search_term_from_ast
RECURSIVE _extract_search_term_from_ast(_)
_extract_search_term_from_ast(node) ==
    CASE node.node = "GlobalSearch" -> Strip(node.value)
      [] node.node \in {"And", "Or"} ->
           LET left_term == _extract_search_term_from_ast(node.left)
           IN IF left_term # "" THEN left_term ELSE _extract_search_term_from_ast(node.right)
      [] node.node = "Not" -> _extract_search_term_from_ast(node.term)
      [] OTHER -> ""

\* _build_order_by_clause with the primary key in its default direction
_build_order_by_clause_plain_key(self, sort_by, sort_order) ==
    LET primary_key_field == "d." \o self.navigation_analysis.main_table_schema.primary_key
        Ordered(direction, expression) ==
            IF ~self.navigation_analysis.loaded THEN [err |-> KeyError, text |-> ""]
            ELSE [err |-> NoError,
                  text |-> "ORDER BY " \o expression \o " " \o direction \o ", "
                             \o primary_key_field]
        Resolved(direction, r) ==
            IF r.err # NoError THEN [err |-> r.err, text |-> ""]
            ELSE Ordered(direction, r.sql)
        Directed(direction) ==
            IF StartsWith(sort_by, "metadata.")
            THEN Ordered(direction,
                         JsonField("d.metadata", SplitOn(From(sort_by, Len("metadata.")), ".")))
            ELSE Resolved(direction,
                          to_sql(<<sort_by>>, self.schema_mapping, PyNone, "",
                                 self.available_metadata_fields, self.string_fields,
                                 self.id_fields, self.entity_fields))
    IN IF Lower(sort_order) \notin {"asc", "desc"}
       THEN [err |-> PyException("ValueError"), text |-> ""]
       ELSE Directed(Upper(sort_order))

\* QueryParser._build_order_by_clause: [err, text]
_build_order_by_clause(self, sort_by, sort_order) ==
    LET primary_key_field == "d." \o self.navigation_analysis.main_table_schema.primary_key
        Ordered(direction, expression) ==
            IF ~self.navigation_analysis.loaded THEN [err |-> KeyError, text |-> ""]
            ELSE [err |-> NoError,
                  text |-> "ORDER BY " \o expression \o " " \o direction \o ", "
                             \o primary_key_field \o " " \o direction]
        Resolved(direction, r) ==
            IF r.err # NoError THEN [err |-> r.err, text |-> ""]
            ELSE Ordered(direction, r.sql)
        Directed(direction) ==
            IF StartsWith(sort_by, "metadata.")
            THEN Ordered(direction,
                         JsonField("d.metadata", SplitOn(From(sort_by, Len("metadata.")), ".")))
            ELSE Resolved(direction,
                          to_sql(<<sort_by>>, self.schema_mapping, PyNone, "",
                                 self.available_metadata_fields, self.string_fields,
                                 self.id_fields, self.entity_fields))
    IN IF Lower(sort_order) \notin {"asc", "desc"}
       THEN [err |-> PyException("ValueError"), text |-> ""]
       ELSE Directed(Upper(sort_order))

\* QueryParser._build_fuzzy_search_clause: [err, where_clause, params]
_build_fuzzy_search_clause(self, query_string) ==
    LET Built(search_term, is_quoted, fl) ==
            IF fl.err # NoError THEN [err |-> fl.err, where_clause |-> "", params |-> <<>>]
            ELSE [err |-> NoError,
                  where_clause |->
                      _build_global_search_clause(search_term, is_quoted, fl.fields, 0).clause,
                  params |-> IF Strip(search_term) # "" THEN <<PyStr(search_term)>> ELSE <<>>]
        Term(search_term, is_quoted) ==
            Built(search_term, is_quoted,
                  _build_dynamic_global_search_fields(self, search_term))
        Cleaned(cleaned) == Term(IF cleaned # "" THEN cleaned ELSE Strip(query_string), FALSE)
        Quoted(quoted) ==
            IF quoted.found THEN Term(Strip(quoted.text), TRUE)
            ELSE Cleaned(CleanSearchText(query_string))
    IN Quoted(FirstQuoted(query_string))

\* the non-empty stripped parts of re.split(r"\s+AND\s+", query_string)
HybridParts(query_string) ==
    LET Stripped(parts) ==
            SelectSeq([i \in 1..Len(parts) |-> Strip(parts[i])], LAMBDA t : t # "")
    IN Stripped(SplitAnd(query_string))

\* _build_hybrid_search_clause, first loop: the parts that raise LarkError
all_search_terms(query_string) == SelectSeq(HybridParts(query_string), LAMBDA t : ~Parse(t).ok)

\* _build_hybrid_search_clause: primary_search_term
primary_search_term(query_string) ==
    LET Primary(terms, quoted) ==
            IF Len(terms) = 0 THEN ""
            ELSE IF quoted.found THEN Strip(quoted.text)
            ELSE CleanSearchText(terms[1])
        Terms(terms) == Primary(terms, FirstQuoted(Join(terms, " ")))
    IN Terms(all_search_terms(query_string))

\* _build_hybrid_search_clause, second loop over the parts from the k-th on:
\* [tr, valid_clauses, fuzzy_search_terms, err]
RECURSIVE TranslateParts(_, _, _, _, _)
TranslateParts(tr, parts, k, valid_clauses, fuzzy_search_terms) ==
    LET Translated(t) ==
            IF t.err # NoError
            THEN [tr |-> t.tr, valid_clauses |-> valid_clauses,
                  fuzzy_search_terms |-> fuzzy_search_terms, err |-> t.err]
            ELSE TranslateParts(t.tr, parts, k + 1, Append(valid_clauses, t.sql),
                                fuzzy_search_terms)
        Part(parsed) ==
            IF ~parsed.ok
            THEN TranslateParts(tr, parts, k + 1, valid_clauses,
                                Append(fuzzy_search_terms, parts[k]))
            ELSE Translated(translate(tr, parsed.ast))
    IN IF k > Len(parts)
       THEN [tr |-> tr, valid_clauses |-> valid_clauses,
             fuzzy_search_terms |-> fuzzy_search_terms, err |-> NoError]
       ELSE Part(Parse(parts[k]))

\* _build_hybrid_search_clause after the second loop, the clauses joined with OR
HybridFinish_joined_with_or(tr, query_string, global_search_fields, valid_clauses, fuzzy_search_terms) ==
    LET all_params == tr.params
        Combined(clauses, fuzzy_phrase) ==
            [where_clause |-> IF Len(clauses) > 0 THEN "(" \o Join(clauses, " OR ") \o ")"
                              ELSE "TRUE",
             params |-> IF Len(fuzzy_search_terms) > 0
                        THEN Append(all_params, PyStr(fuzzy_phrase)) ELSE all_params]
        Fuzzy(fuzzy_phrase, fuzzy_clause) ==
            Combined(IF Len(fuzzy_search_terms) > 0 /\ fuzzy_clause # "TRUE"
                     THEN Append(valid_clauses, fuzzy_clause) ELSE valid_clauses,
                     fuzzy_phrase)
        Phrase(fuzzy_phrase) ==
            Fuzzy(fuzzy_phrase,
                  _build_global_search_clause(fuzzy_phrase, FirstQuoted(query_string).found,
                                              global_search_fields, Len(all_params)).clause)
    IN Phrase(Strip(Join(fuzzy_search_terms, " ")))

\* _build_hybrid_search_clause after the second loop, the search clause numbered
\* from 0 instead of len(all_params)
HybridFinish_search_from_zero(tr, query_string, global_search_fields, valid_clauses, fuzzy_search_terms) ==
    LET all_params == tr.params
        Combined(clauses, fuzzy_phrase) ==
            [where_clause |-> IF Len(clauses) > 0 THEN "(" \o Join(clauses, " AND ") \o ")"
                              ELSE "TRUE",
             params |-> IF Len(fuzzy_search_terms) > 0
                        THEN Append(all_params, PyStr(fuzzy_phrase)) ELSE all_params]
        Fuzzy(fuzzy_phrase, fuzzy_clause) ==
            Combined(IF Len(fuzzy_search_terms) > 0 /\ fuzzy_clause # "TRUE"
                     THEN Append(valid_clauses, fuzzy_clause) ELSE valid_clauses,
                     fuzzy_phrase)
        Phrase(fuzzy_phrase) ==
            Fuzzy(fuzzy_phrase,
                  _build_global_search_clause(fuzzy_phrase, FirstQuoted(query_string).found,
                                              global_search_fields, 0).clause)
    IN Phrase(Strip(Join(fuzzy_search_terms, " ")))

\* _build_hybrid_search_clause after the second loop: [where_clause, params]
HybridFinish(tr, query_string, global_search_fields, valid_clauses, fuzzy_search_terms) ==
    LET all_params == tr.params
        Combined(clauses, fuzzy_phrase) ==
            [where_clause |-> IF Len(clauses) > 0 THEN "(" \o Join(clauses, " AND ") \o ")"
                              ELSE "TRUE",
             params |-> IF Len(fuzzy_search_terms) > 0
                        THEN Append(all_params, PyStr(fuzzy_phrase)) ELSE all_params]
        Fuzzy(fuzzy_phrase, fuzzy_clause) ==
            Combined(IF Len(fuzzy_search_terms) > 0 /\ fuzzy_clause # "TRUE"
                     THEN Append(valid_clauses, fuzzy_clause) ELSE valid_clauses,
                     fuzzy_phrase)
        Phrase(fuzzy_phrase) ==
            Fuzzy(fuzzy_phrase,
                  _build_global_search_clause(fuzzy_phrase, FirstQuoted(query_string).found,
                                              global_search_fields, Len(all_params)).clause)
    IN Phrase(Strip(Join(fuzzy_search_terms, " ")))

-----------------------------------------------------------------------------
(* QueryParser.parse_query *)

Request(q, sort_by, sort_order) == [q |-> q, sort_by |-> sort_by, sort_order |-> sort_order]

NoResult ==
    [status |-> "none", err |-> NoError, count_query |-> "", select_query |-> "",
     params |-> <<>>, path |-> "none"]
Raised(e, path) ==
    [status |-> "raise", err |-> e, count_query |-> "", select_query |-> "",
     params |-> <<>>, path |-> path]
Returned(count_query, select_query, params, path) ==
    [status |-> "ok", err |-> NoError, count_query |-> count_query,
     select_query |-> select_query, params |-> params, path |-> path]

\* the blank-query branch with the ORDER BY of the default sort
EmptyQueryResult_default_sort(self, req) ==
    LET Assembled(sf, ob) ==
            IF sf.err # NoError THEN Raised(sf.err, "empty")
            ELSE IF ob.err # NoError THEN Raised(ob.err, "empty")
            ELSE Returned("SELECT COUNT(*) FROM " \o MainTable,
                          "\nSELECT " \o sf.text \o "\n" \o self.from_and_joins \o "\n"
                            \o ob.text \o "\n",
                          <<>>, "empty")
    IN Assembled(_build_dynamic_select_fields(self),
                 _build_order_by_clause(self, "last_edited_at", "desc"))

\* parse_query, the branch for a blank query string
EmptyQueryResult(self, req) ==
    LET Assembled(sf, ob) ==
            IF sf.err # NoError THEN Raised(sf.err, "empty")
            ELSE IF ob.err # NoError THEN Raised(ob.err, "empty")
            ELSE Returned("SELECT COUNT(*) FROM " \o MainTable,
                          "\nSELECT " \o sf.text \o "\n" \o self.from_and_joins \o "\n"
                            \o ob.text \o "\n",
                          <<>>, "empty")
    IN Assembled(_build_dynamic_select_fields(self),
                 _build_order_by_clause(self, req.sort_by, req.sort_order))

\* the assembly with the count statement of the blank query: no joins
FilteredResult_count_main_table(self, req, where_clause, params, path) ==
    LET Assembled(sf, ob) ==
            IF sf.err # NoError THEN Raised(sf.err, path)
            ELSE IF ob.err # NoError THEN Raised(ob.err, path)
            ELSE Returned("SELECT COUNT(*) FROM " \o MainTable \o " WHERE " \o where_clause,
                          "\nSELECT " \o sf.text \o "\n" \o self.from_and_joins \o "\nWHERE "
                            \o where_clause \o "\n" \o ob.text \o "\n",
                          params, path)
    IN Assembled(_build_dynamic_select_fields(self),
                 _build_order_by_clause(self, req.sort_by, req.sort_order))

\* parse_query, the assembly of select_query and count_query around a where_clause
FilteredResult(self, req, where_clause, params, path) ==
    LET Assembled(sf, ob) ==
            IF sf.err # NoError THEN Raised(sf.err, path)
            ELSE IF ob.err # NoError THEN Raised(ob.err, path)
            ELSE Returned("SELECT COUNT(*) " \o self.from_and_joins \o " WHERE "
                            \o where_clause,
                          "\nSELECT " \o sf.text \o "\n" \o self.from_and_joins \o "\nWHERE "
                            \o where_clause \o "\n" \o ob.text \o "\n",
                          params, path)
    IN Assembled(_build_dynamic_select_fields(self),
                 _build_order_by_clause(self, req.sort_by, req.sort_order))

\* the free-text fallback: the result parse_query assembles around the clause
\* of _build_fuzzy_search_clause
FuzzyResult(self, req) ==
    LET Around(fz) ==
            IF fz.err # NoError THEN Raised(fz.err, "fuzzy")
            ELSE FilteredResult(self, req, fz.where_clause, fz.params, "fuzzy")
    IN Around(_build_fuzzy_search_clause(self, req.q))

\* parse_query up to the call of translator.reset: either the call is over (final)
\* or it goes on with the normal translation or with the hybrid recovery
Begin(self, req) ==
    LET Decided(parsed, fl) ==
            LET go(kind, res) == [kind |-> kind, result |-> res, ast |-> parsed.ast,
                                  fields |-> fl.fields]
            IN IF DOMAIN self.schema_mapping = {}
               THEN go("final", Raised(PyException("RuntimeError"), "none"))
               ELSE IF Strip(req.q) = "" THEN go("final", EmptyQueryResult(self, req))
               ELSE IF parsed.ok
               THEN IF fl.err # NoError THEN go("final", Raised(fl.err, "normal"))
                    ELSE go("normal", NoResult)
               ELSE IF fl.err # NoError
               THEN \* the hybrid step raised before its reset: free-text fallback
                    go("final", FuzzyResult(self, req))
               ELSE go("hybrid", NoResult)
        Parsed(parsed) ==
            Decided(parsed,
                    _build_dynamic_global_search_fields(self,
                        IF parsed.ok THEN _extract_search_term_from_ast(parsed.ast)
                        ELSE primary_search_term(req.q)))
    IN Parsed(Parse(req.q))

\* self.translator.reset(self.schema_mapping, global_search_fields, ...)
ResetFor(self, tr, fields) ==
    reset(tr, self.schema_mapping, fields, self.available_metadata_fields,
          self.string_fields, self.id_fields, self.entity_fields)

\* the translation the call makes after its reset: [tr, err, valid_clauses,
\* fuzzy_search_terms]; the normal path has the one clause of the whole AST
TranslateFor(tr, kind, req, ast) ==
    LET Whole(t) == [tr |-> t.tr, err |-> t.err, valid_clauses |-> <<t.sql>>,
                     fuzzy_search_terms |-> <<>>]
    IN IF kind = "normal" THEN Whole(translate(tr, ast))
       ELSE TranslateParts(tr, HybridParts(req.q), 1, <<>>, <<>>)

\* exception handlers that let an exception of the hybrid recovery through
AfterTranslationError_reraise(self, req, kind, err) ==
    IF kind = "normal" THEN Raised(err, "normal") ELSE Raised(err, "hybrid")

\* what the exception handlers of parse_query make of an exception of the translation
AfterTranslationError(self, req, kind, err) ==
    IF kind = "normal" THEN Raised(err, "normal") ELSE FuzzyResult(self, req)

\* the rest of parse_query after a translation that did not raise; tr is the
\* translator as the call finds it when it reads self.translator.params
Finish(self, tr, req, kind, fields, valid_clauses, fuzzy_search_terms) ==
    LET Around(clause) ==
            FilteredResult(self, req, clause.where_clause, clause.params, kind)
    IN Around(IF kind = "normal"
              THEN [where_clause |-> valid_clauses[1], params |-> tr.params]
              ELSE HybridFinish(tr, req.q, fields, valid_clauses, fuzzy_search_terms))

\* QueryParser.parse_query run without interruption: [tr, result]
parse_query(self, tr, req) ==
    LET Translated(kind, fields, t) ==
            [tr |-> t.tr,
             result |-> IF t.err # NoError THEN AfterTranslationError(self, req, kind, t.err)
                        ELSE Finish(self, t.tr, req, kind, fields, t.valid_clauses,
                                    t.fuzzy_search_terms)]
        Begun(b) ==
            IF b.kind = "final" THEN [tr |-> tr, result |-> b.result]
            ELSE Translated(b.kind, b.fields,
                            TranslateFor(ResetFor(self, tr, b.fields), b.kind, req, b.ast))
    IN Begun(Begin(self, req))


-----------------------------------------------------------------------------
(* Inputs *)

DefaultSortBy == "last_edited_at"
DefaultSortOrder == "desc"

FieldNames == {"status", "size", "name", "tag", "run.energy", "metadata.tag",
               "metadata.run.energy", "last_edited_at", "category", "category_name",
               "category_id", "nonexistent_field", "foo_id", "tag_name", "external_id"}
Operators == Ops1 \cup Ops2
ValueTexts == {"active", "100", "1.5", "\"hello world\"", "*", "", "\"2025-07-20\"",
               "1.5e999"}

ComparisonQueries == {f \o o \o v : f \in FieldNames, o \in Operators, v \in ValueTexts}

GlobalSearchQueries ==
    {"foo", "\"hello world\"", "*", "42", "cafe1234-aaaa-bbbb-cccc-123456789012",
     "\" beam test \"", "\"\"", "'it is'", "1.50"}

CompoundQueries ==
    {"status=active AND \"beam test\"", "last_edited_at: AND name=x", "tag:* OR size>100",
     "size>1 AND last_edited_at: AND name=x", "name=x OR last_edited_at:\"\"",
     "last_edited_at:\"\"",
     "NOT status=active", "(size>1 OR size<5) AND NOT tag!:*", "foo AND bar",
     "* AND size=1", "run.energy>=7 AND tag:* AND name:x", "status=active AND nope=1",
     "size=1 AND status>2", "foo AND cafe1234-aaaa-bbbb-cccc-123456789012",
     "cafe1234-aaaa-bbbb-cccc-123456789012 OR \"beam test\"",
     "last_edited_at: AND tag:* AND NOT run.energy!:* AND (size>100 OR \"beam test\") AND *"}

\* strings the grammar rejects
RejectedQueries ==
    {"foo AND \"bar baz", "beam test", "status=active and size>100", "(status=active",
     "status=active AND (x", "foo bar AND nonexistent_field=1", "size>1 AND status>2 AND (",
     "\"unterminated", "a and b", "status==x", "name=x AND 'it is' so",
     "12345678-1234-1234-1234-123456789012", "tag:* AND AND",
     "cafe1234-aaaa-bbbb-cccc-123456789012 AND \"bar baz",
     "status=\"active\" AND beam test", "size>1 AND \"beam test\" run"}

BlankQueries == {"", "   "}

SortRequests ==
    {Request(q, sb, so) :
        q \in BlankQueries \cup {"status=active", "foo AND \"bar baz", "beam test",
                                 "foo bar AND nonexistent_field=1"},
        sb \in {"name", "metadata.tag", "metadata.run.energy", "category", "tag",
                "nonexistent_field"},
        so \in {"asc", "desc", "ASC", "Desc"}}

\* the requests of the one-call specification
BroadRequests ==
    {Request(q, DefaultSortBy, DefaultSortOrder) :
        q \in ComparisonQueries \cup GlobalSearchQueries \cup CompoundQueries
                \cup RejectedQueries \cup BlankQueries}
    \cup SortRequests

\* the requests a QueryParser serves one after the other
Requests ==
    {Request(q, DefaultSortBy, DefaultSortOrder) :
        q \in {f \o o \o v : f \in {"status", "size", "tag", "foo_id"},
                              o \in {"=", ">", ":"}, v \in {"active", "100", "*"}}
             \cup {"\"hello world\"", "", "status=active AND nope=1", "size=1 AND status>2",
                   "foo AND \"bar baz", "foo bar AND nonexistent_field=1", "beam test",
                   "last_edited_at: AND name=x", "size>1 AND status>2 AND (",
                   "cafe1234-aaaa-bbbb-cccc-123456789012 AND tag!:*"}}
    \cup {Request("", "name", "asc"), Request("status=active", "nonexistent_field", "asc")}

NoRequest == Request("", "", "")

-----------------------------------------------------------------------------
(* Specifications *)

\* QueryParser.__init__
InitParser ==
    /\ schema_mapping = <<>>
    /\ available_metadata_fields = {}
    /\ string_fields = {}
    /\ id_fields = {}
    /\ entity_fields = {}
    /\ navigation_analysis = EmptyAnalysis
    /\ entity_aliases = <<>>
    /\ from_and_joins = ""
    /\ translator = NewTranslator

\* the QueryParser after a complete setup() against a snapshot
SetUp(snap) ==
    LET analysis == [loaded |-> TRUE, navigation_tables |-> snap.navigation_tables,
                     main_table_schema |-> [columns |-> snap.columns,
                                            primary_key |-> snap.primary_key]]
        j == _build_dynamic_joins(analysis, <<>>)
    IN [schema_mapping |-> generate_schema_mapping(snap),
        available_metadata_fields |-> _fetch_available_metadata_fields(snap),
        string_fields |-> ClassifyStringColumns(snap) \cup Range(EntityKeys(snap))
                            \cup {k \o "_name" : k \in Range(EntityKeys(snap))},
        id_fields |-> ClassifyIdColumns(snap),
        entity_fields |-> Range(EntityKeys(snap)),
        navigation_analysis |-> analysis,
        entity_aliases |-> j.aliases,
        from_and_joins |-> j.from_and_joins]

\* a request is served by parse_query, which runs to its end: the handlers are
\* coroutines of one event loop and parse_query does not await
ParseQuery ==
    /\ setup_pc = "done"
    /\ \E req \in Requests :
          \E r \in {parse_query(Self, translator, req)} :
             /\ request' = req
             /\ result' = r.result
             /\ translator' = r.tr
    /\ UNCHANGED <<db, parserVars, setup_pc, setups, calls>>

\* The service: lifespan awaits setup() once, then requests are served.
Init ==
    /\ db \in Snapshots
    /\ InitParser
    /\ setup_pc = "new"
    /\ setups = 0
    /\ request = NoRequest
    /\ result = NoResult
    /\ calls = <<>>

Next ==
    \/ SetupStart(1)
    \/ SetupMapping
    \/ SetupMetadata
    \/ SetupClassifyColumns
    \/ SetupClassifyNavigation
    \/ SetupNavigation
    \/ SetupJoins
    \/ ParseQuery

Spec == Init /\ [][Next]_vars

\* One parse_query call on a set-up QueryParser, over the broad input set.
InitTranslate ==
    /\ db \in Snapshots
    /\ schema_mapping = SetUp(db).schema_mapping
    /\ available_metadata_fields = SetUp(db).available_metadata_fields
    /\ string_fields = SetUp(db).string_fields
    /\ id_fields = SetUp(db).id_fields
    /\ entity_fields = SetUp(db).entity_fields
    /\ navigation_analysis = SetUp(db).navigation_analysis
    /\ entity_aliases = SetUp(db).entity_aliases
    /\ from_and_joins = SetUp(db).from_and_joins
    /\ translator = NewTranslator
    /\ setup_pc = "done"
    /\ setups = 1
    /\ request \in BroadRequests
    /\ result = NoResult
    /\ calls = <<>>

TranslateRequest ==
    /\ result.status = "none"
    /\ \E r \in {parse_query(Self, translator, request)} :
          result' = r.result /\ translator' = r.tr
    /\ UNCHANGED <<db, parserVars, setup_pc, setups, request, calls>>

NextTranslate == TranslateRequest

SpecTranslate == InitTranslate /\ [][NextTranslate]_vars

\* setup() leaves the QueryParser as SetUp describes it
SetupComplete == setup_pc = "done" => Self = SetUp(db)

-----------------------------------------------------------------------------
(* Reading the returned SQL *)

\* the WHERE clause of a searchSql, "" when it has none
WhereOf(select_query) ==
    LET w == Find(select_query, "\nWHERE ", 1)
        o == Find(select_query, "\nORDER BY ", 1)
    IN IF w = 0 THEN "" ELSE Sub(select_query, w + Len("\nWHERE "), o - 1)

\* the ORDER BY clause of a searchSql, without the keyword
OrderByOf(select_query) ==
    LET o == Find(select_query, "\nORDER BY ", 1)
    IN IF o = 0 THEN ""
       ELSE Sub(select_query, o + Len("\nORDER BY "), Len(select_query) - 1)

\* the numbers n of the placeholders $n that occur in a text
PlaceholdersIn(text) ==
    {NatOf(Sub(text, i + 1, RunEnd(text, i + 1, Digits) - 1)) :
        i \in {j \in 1..Len(text) : Ch(text, j) = "$" /\ Ch(text, j + 1) \in Digits}}

\* the call of the state has ended
Answered == result.status # "none"
\* the grammar rejects the (non-blank) query string of the request
Rejected == Strip(request.q) # "" /\ ~Parse(request.q).ok
\* sort_by resolves and sort_order is asc or desc
SortResolves == _build_order_by_clause(Self, request.sort_by, request.sort_order).err = NoError

\* the node kinds that occur in an AST
RECURSIVE NodeKinds(_)
NodeKinds(node) ==
    CASE node.node \in {"And", "Or"} -> NodeKinds(node.left) \cup NodeKinds(node.right)
      [] node.node = "Not" -> NodeKinds(node.term)
      [] node.node = "GlobalSearch" -> {IF node.value = "*" THEN "Star" ELSE "GlobalSearch"}
      [] node.node = "Comparison" ->
           {IF node.op \in {":", "!:"} /\ node.value = PyStr("*") THEN "Existence"
            ELSE IF node.value = PyNone THEN "Valueless"
            ELSE "Comparison"}

-----------------------------------------------------------------------------
(* Placeholders and parameters *)

\* C1: for a query the grammar accepts and that translates without a validation
\* error, the placeholders $n of the WHERE clause of searchSql are exactly
\* $1..$len(params).
C1_PlaceholderArity ==
    (result.status = "ok" /\ result.path = "normal")
        => PlaceholdersIn(WhereOf(result.select_query)) = 1..Len(result.params)

\* an accepted query that mixes an existence test, a valueless last_edited_at:,
\* a comparison, a global search and a `*` term has been translated
C1_Witness ==
    /\ result.status = "ok" /\ result.path = "normal"
    /\ NodeKinds(Parse(request.q).ast)
         = {"Existence", "Valueless", "Comparison", "GlobalSearch", "Star"}
    /\ Len(result.params) = 4
    /\ PlaceholdersIn(WhereOf(result.select_query)) = {1, 2, 3, 4}

-----------------------------------------------------------------------------
(* Errors and recovery *)

\* the error the translation of the AND-segments of the request raises, NoError
\* when every segment that parses also translates
SegmentError ==
    LET fl == _build_dynamic_global_search_fields(Self, primary_search_term(request.q))
    IN TranslateParts(ResetFor(Self, NewTranslator, fl.fields), HybridParts(request.q), 1,
                      <<>>, <<>>).err

\* C2: when the grammar rejects the whole query and a segment of the AND-split
\* parses but its translation raises invalid_field or invalid_operation,
\* parse_query raises that error instead of returning SQL.
C2_ValidationNotSwallowed ==
    (Answered /\ Rejected /\ SortResolves
       /\ SegmentError.type \in {"invalid_field", "invalid_operation"})
        => (result.status = "raise" /\ result.err = SegmentError)

\* the field of a one-comparison query is in none of columnSql, entityFields and
\* metadataFields
UnknownField(parts) ==
    /\ BaseField(parts) \notin DOMAIN schema_mapping
    /\ BaseField(parts) \notin entity_fields
    /\ BaseField(parts) \notin available_metadata_fields

\* C3: a comparison on a field that is in none of columnSql, entityFields and
\* metadataFields raises invalid_field naming the field, for every operator and
\* every value, and no SQL is returned.
C3_UnknownFieldInvalid ==
    LET parsed == Parse(request.q)
    IN (Answered /\ parsed.ok /\ parsed.ast.node = "Comparison"
          /\ UnknownField(parsed.ast.field))
        => /\ result.status = "raise"
           /\ result.err = SearchValidationError("invalid_field",
                                                 Join(parsed.ast.field, "."), "")

\* C4: a non-blank query the grammar rejects, with a sort that resolves, ends in
\* a returned triple made by the hybrid recovery or by the free-text fallback;
\* nothing is raised.
C4_SyntaxFailureNotFatal ==
    (Answered /\ Rejected /\ SortResolves)
        => (result.status = "ok" /\ result.path \in {"hybrid", "fuzzy"})

\* a rejected query has been answered by the hybrid recovery
C4_Witness ==
    /\ Rejected /\ SortResolves
    /\ result.status = "ok" /\ result.path = "hybrid"
    /\ Len(result.params) > 0

-----------------------------------------------------------------------------
(* Determinism *)

\* C7: under an unchanged Schema Context parse_query(q, sort_by, sort_order)
\* returns the same triple (or raises the same error) whatever queries, successful
\* or failing, were parsed before it: it is what a QueryParser that has served no
\* request returns.
C7_Deterministic ==
    Answered => /\ Self = SetUp(db)
                /\ result = parse_query(SetUp(db), NewTranslator, request).result

\* a query with parameters has been answered by a translator that an earlier
\* call left with parameters of its own
C7_Witness ==
    /\ result.status = "ok"
    /\ Len(result.params) > 0
    /\ translator.params # <<>>
    /\ translator.params # result.params

-----------------------------------------------------------------------------
(* The empty query and the ORDER BY clause *)

\* the answer to a filtered query with the sort of the request
FilteredAnswer == parse_query(Self, NewTranslator,
                              Request("status=active", request.sort_by, request.sort_order)).result

\* C8: for an empty or whitespace-only query string parse_query returns no
\* parameters, a searchSql and a countSql without WHERE and without placeholder,
\* and the ORDER BY a filtered query gets; for sort_by name and sort_order asc
\* that is the name column ASC, then the primary key ASC.
C8_EmptyQuery ==
    (Answered /\ Strip(request.q) = "" /\ SortResolves)
        => /\ result.status = "ok"
           /\ result.params = <<>>
           /\ ~Contains(result.select_query, "WHERE") /\ ~Contains(result.count_query, "WHERE")
           /\ ~Contains(result.select_query, "$") /\ ~Contains(result.count_query, "$")
           /\ OrderByOf(result.select_query) # ""
           /\ OrderByOf(result.select_query) = OrderByOf(FilteredAnswer.select_query)
           /\ (request.sort_by = "name" /\ request.sort_order = "asc")
                 => OrderByOf(result.select_query)
                      = "d.name ASC, d." \o db.primary_key \o " ASC"

\* a whitespace-only query sorted by name ascending has been answered
C8_Witness ==
    /\ request = Request("   ", "name", "asc")
    /\ result.status = "ok"
    /\ FilteredAnswer.status = "ok"
    /\ Contains(FilteredAnswer.select_query, "WHERE")

\* the sort expression of the request: the JSON path of a metadata.-prefixed
\* sort_by, the Field Resolver's SQL of any other
SortExpression ==
    IF StartsWith(request.sort_by, "metadata.")
    THEN JsonField("d.metadata", SplitOn(From(request.sort_by, Len("metadata.")), "."))
    ELSE to_sql(<<request.sort_by>>, schema_mapping, PyNone, "", available_metadata_fields,
                string_fields, id_fields, entity_fields).sql

\* C9: when sort_by resolves and sort_order is asc or desc in any letter case,
\* the ORDER BY of searchSql has exactly two keys, the sort expression and then
\* the primary key of the main table, both in the direction of sort_order, on
\* the empty-query, normal and recovery paths.
C9_StableOrder ==
    (result.status = "ok")
        => LET keys == SplitOn(OrderByOf(result.select_query), ", ")
               direction == IF Lower(request.sort_order) = "asc" THEN "ASC" ELSE "DESC"
           IN /\ Lower(request.sort_order) \in {"asc", "desc"}
              /\ Len(keys) = 2
              /\ keys[1] = SortExpression \o " " \o direction
              /\ keys[2] = "d." \o db.primary_key \o " " \o direction

\* a recovery answer sorted on a nested metadata path, with a mixed-case sort_order
C9_Witness ==
    /\ result.status = "ok" /\ result.path \in {"hybrid", "fuzzy"}
    /\ request.sort_by = "metadata.run.energy" /\ request.sort_order = "Desc"
    /\ OrderByOf(result.select_query)
         = "d.metadata->'run'->>'energy' DESC, d.entity_id DESC"

-----------------------------------------------------------------------------
(* Existence tests *)

\* the request is f!:* for one field f (a dotted path without operator)
IsNotExistsRequest ==
    LET parsed == Parse(request.q)
    IN /\ parsed.ok /\ parsed.ast.node = "Comparison"
       /\ parsed.ast.op = "!:" /\ parsed.ast.value = PyStr("*")
       /\ request.q = Join(parsed.ast.field, ".") \o "!:*"

\* the field of the request, as its segments
RequestField == Parse(request.q).ast.field

\* the answer to f:* for the field f of the request
ExistsAnswer ==
    parse_query(Self, NewTranslator,
                Request(Join(RequestField, ".") \o ":*", request.sort_by, request.sort_order)).result

\* the Field Resolver classifies the field as metadata: explicit metadata. prefix,
\* or a base segment that is no column and no entity but a metadataFields key
MetadataClassified(parts) ==
    \/ parts[1] = "metadata" /\ Len(parts) > 1
    \/ /\ BaseField(parts) \notin DOMAIN schema_mapping
       /\ BaseField(parts) \notin entity_fields
       /\ BaseField(parts) \in available_metadata_fields

\* the Field Resolver resolves the field to a column of the main table or to the
\* name column of a navigation entity
PlainColumn(parts) ==
    /\ ~(parts[1] = "metadata" /\ Len(parts) > 1)
    /\ BaseField(parts) \in DOMAIN schema_mapping

\* the SQL the Field Resolver gives the field without operator and value
ResolvedSql(parts) ==
    to_sql(parts, schema_mapping, PyNone, "", available_metadata_fields, string_fields,
           id_fields, entity_fields).sql

-----------------------------------------------------------------------------
(* Callers that do not serialise their calls *)
(* parse_query has no lock: callers on several threads run its statements    *)
(* interleaved.  A step is a statement of parse_query that touches the       *)
(* shared self.translator: its reset, the translation, the read of params.   *)

ConcurrentRequests ==
    {Request(q, DefaultSortBy, DefaultSortOrder) :
        q \in {"status=active", "size>100 AND tag:*", "foo AND \"bar baz", "", "nope=1"}}

NoAst == [node |-> "none"]

IdleCall ==
    [pc |-> "idle", req |-> NoRequest, kind |-> "", ast |-> NoAst, fields |-> <<>>,
     valid_clauses |-> <<>>, fuzzy_search_terms |-> <<>>, result |-> NoResult]

DoneCall(call, res) == [call EXCEPT !.pc = "done", !.result = res]

\* a caller enters parse_query: parsing and the search fields are local, then
\* self.translator.reset(...)
CallReset(c) ==
    /\ calls[c].pc = "idle"
    /\ \E req \in ConcurrentRequests :
          \E b \in {Begin(Self, req)} :
          LET call == [IdleCall EXCEPT !.req = req, !.kind = b.kind, !.ast = b.ast,
                                       !.fields = b.fields]
          IN IF b.kind = "final"
             THEN /\ calls' = [calls EXCEPT ![c] = DoneCall(call, b.result)]
                  /\ UNCHANGED translator
             ELSE /\ calls' = [calls EXCEPT ![c] = [call EXCEPT !.pc = "reset"]]
                  /\ translator' = ResetFor(Self, translator, b.fields)
    /\ UNCHANGED <<db, parserVars, setup_pc, setups, request, result>>

\* where_clause = self.translator.translate(ast), or the loop of the hybrid
\* recovery over the AND-segments
CallTranslate(c) ==
    /\ calls[c].pc = "reset"
    /\ \E t \in {TranslateFor(translator, calls[c].kind, calls[c].req, calls[c].ast)} :
       LET call == calls[c]
       IN /\ translator' = t.tr
          /\ calls' = [calls EXCEPT ![c] =
                IF t.err # NoError
                THEN DoneCall(call, AfterTranslationError(Self, call.req, call.kind, t.err))
                ELSE [call EXCEPT !.pc = "translated", !.valid_clauses = t.valid_clauses,
                                  !.fuzzy_search_terms = t.fuzzy_search_terms]]
    /\ UNCHANGED <<db, parserVars, setup_pc, setups, request, result>>

\* the queries are assembled and self.translator.params is read for the return
CallFinish(c) ==
    /\ calls[c].pc = "translated"
    /\ LET call == calls[c]
       IN calls' = [calls EXCEPT ![c] =
             DoneCall(call, Finish(Self, translator, call.req, call.kind, call.fields,
                                   call.valid_clauses, call.fuzzy_search_terms))]
    /\ UNCHANGED <<db, parserVars, translator, setup_pc, setups, request, result>>

InitConcurrent ==
    /\ db \in Snapshots
    /\ schema_mapping = SetUp(db).schema_mapping
    /\ available_metadata_fields = SetUp(db).available_metadata_fields
    /\ string_fields = SetUp(db).string_fields
    /\ id_fields = SetUp(db).id_fields
    /\ entity_fields = SetUp(db).entity_fields
    /\ navigation_analysis = SetUp(db).navigation_analysis
    /\ entity_aliases = SetUp(db).entity_aliases
    /\ from_and_joins = SetUp(db).from_and_joins
    /\ translator = NewTranslator
    /\ setup_pc = "done"
    /\ setups = 1
    /\ request = NoRequest
    /\ result = NoResult
    /\ calls = [c \in 1..MaxCalls |-> IdleCall]

NextConcurrent ==
    \E c \in 1..MaxCalls :
        \/ CallReset(c)
        \/ CallTranslate(c)
        \/ CallFinish(c)

SpecConcurrent == InitConcurrent /\ [][NextConcurrent]_vars

\* C5: translator state is call-scoped.  With the reset, translate and
\* read-params steps of concurrent parse_query calls interleaved, each call
\* returns what it returns when it runs alone: placeholders numbered from $1 and
\* the params of its own query.
C5_CallScoped ==
    \A c \in DOMAIN calls :
        calls[c].pc = "done"
            => calls[c].result = parse_query(Self, NewTranslator, calls[c].req).result

-----------------------------------------------------------------------------
(* Requests served while setup() is suspended *)
(* setup() assigns the fields of the Schema Context one after the other,     *)
(* with an await before each assignment; a request handler runs between two  *)
(* of them.  A refresh is a second setup() after the schema has changed.     *)

RefreshRequests ==
    {Request(q, DefaultSortBy, DefaultSortOrder) :
        q \in {"status=active", "tag:*", "lumi>1", "category=x", "detector=y", "", "foo",
               "run.energy>5"}}

\* the schema of the database changes between two setups
SchemaChange ==
    /\ setup_pc = "done"
    /\ setups < MaxSetups
    /\ db' \in Snapshots \ {db}
    /\ UNCHANGED <<parserVars, translator, setup_pc, setups, request, result, calls>>

\* a request handler calls parse_query, whatever setup() has reached
ParseQueryAnytime ==
    /\ \E req \in RefreshRequests :
          \E r \in {parse_query(Self, translator, req)} :
             /\ request' = req
             /\ result' = r.result
             /\ translator' = r.tr
    /\ UNCHANGED <<db, parserVars, setup_pc, setups, calls>>

NextRefresh ==
    \/ SetupStart(MaxSetups)
    \/ SetupMapping
    \/ SetupMetadata
    \/ SetupClassifyColumns
    \/ SetupClassifyNavigation
    \/ SetupNavigation
    \/ SetupJoins
    \/ SchemaChange
    \/ ParseQueryAnytime

SpecRefresh == Init /\ [][NextRefresh]_vars

\* what parse_query answers before any setup
NotSetUp == Raised(PyException("RuntimeError"), "none")

\* C6: the Schema Context is published atomically.  A parse_query that runs
\* while setup() is suspended answers as under a complete snapshot, the old
\* one (or none, before the first setup) or the new one, never as under a mix.
C6_AtomicPublication ==
    Answered => \/ result = NotSetUp
                \/ \E snap \in Snapshots :
                      result = parse_query(SetUp(snap), NewTranslator, request).result

-----------------------------------------------------------------------------
(* Alias assignment: setup() against schemas with several navigation tables *)

\* most navigation tables of a schema
MaxNavTables == 3

\* entity keys: a shared 3-prefix (category, catalog, cat), a 4-prefix that is a
\* reserved word (frog, fromage), a reserved word (end), the main alias (d)
AliasKeys == {"category", "catalog", "cat", "frog", "fromage", "end", "d"}

\* navigation_tables is a dict: its keys are distinct
KeySequences ==
    {s \in UNION {[1..n -> AliasKeys] : n \in 0..MaxNavTables} :
        \A i, j \in DOMAIN s : i # j => s[i] # s[j]}

AliasSnapshots ==
    {[SnapshotA EXCEPT !.navigation_tables =
         [i \in DOMAIN s |-> NavTable(s[i], s[i] \o "s", s[i] \o "_id", "name")]] :
       s \in KeySequences}

InitAliases ==
    /\ db \in AliasSnapshots
    /\ InitParser
    /\ setup_pc = "new"
    /\ setups = 0
    /\ request = NoRequest
    /\ result = NoResult
    /\ calls = <<>>

NextAliases ==
    \/ SetupStart(1)
    \/ SetupMapping
    \/ SetupMetadata
    \/ SetupClassifyColumns
    \/ SetupClassifyNavigation
    \/ SetupNavigation
    \/ SetupJoins

SpecAliases == InitAliases /\ [][NextAliases]_vars

\* the aliases _build_dynamic_joins gave the navigation tables, in their order
AssignedAliases == [i \in DOMAIN EntityKeys(db) |-> entity_aliases[EntityKeys(db)[i]]]

\* C11: the aliases generate_unique_table_alias gives the entity keys of a
\* schema, each added to used_aliases (which starts as {"d"}), are pairwise
\* distinct, differ from the main alias d, and none is, ignoring case, a word of
\* reserved_keywords.
C11_AliasesDistinctUnreserved ==
    setup_pc = "done" =>
        /\ \A i, j \in DOMAIN AssignedAliases : i # j => AssignedAliases[i] # AssignedAliases[j]
        /\ \A i \in DOMAIN AssignedAliases : AssignedAliases[i] # "d"
        /\ \A i \in DOMAIN AssignedAliases : Lower(AssignedAliases[i]) \notin reserved_keywords

-----------------------------------------------------------------------------
(* One comparison: operators and values *)

\* the request is one comparison f op v (v may be missing)
IsComparisonRequest == Parse(request.q).ok /\ Parse(request.q).ast.node = "Comparison"
RequestOp == Parse(request.q).ast.op
RequestValue == Parse(request.q).ast.value

\* the request is an existence test f:* or f!:*
IsExistenceTest == RequestOp \in {":", "!:"} /\ RequestValue = PyStr("*")

\* the field of the request is the last-edited timestamp
OnLastEdited == RequestField[1] = "last_edited_at"

\* F: the SQL the Field Resolver gives the field of the request for the request's
\* operator and value
RequestSql ==
    to_sql(RequestField, schema_mapping, RequestValue, RequestOp, available_metadata_fields,
           string_fields, id_fields, entity_fields).sql

\* the parameter of a comparison on the last-edited timestamp: a date-like string
\* is parsed to a date/time value, any other value is passed as it is
TimestampParam(v) ==
    IF IsStr(v) /\ parse_date_string_ok(v.s) THEN parse_date_string(v.s) ELSE v

\* the statement of the = operator with the value itself as parameter in every
\* case: F ILIKE $1 for a string value on a field other than the last-edited
\* timestamp, F = $1 for a numeric value or on the last-edited timestamp.
C12_EqualityAsWritten ==
    (Answered /\ IsComparisonRequest /\ RequestOp = "=" /\ result.status = "ok")
        => /\ (IsStr(RequestValue) /\ ~OnLastEdited)
                => /\ WhereOf(result.select_query) = RequestSql \o " ILIKE $1"
                   /\ result.params = <<RequestValue>>
           /\ (IsNumber(RequestValue) \/ OnLastEdited)
                => /\ WhereOf(result.select_query) = RequestSql \o " = $1"
                   /\ result.params = <<RequestValue>>

\* C12: operator =.  A string value on a field other than the last-edited
\* timestamp translates to F ILIKE $1 with the raw value as parameter; a numeric
\* value, or any value on the last-edited timestamp, translates to F = $1, the
\* parameter being the value, parsed to a date/time value when it is a date-like
\* string on the last-edited timestamp.
C12_Equality ==
    (Answered /\ IsComparisonRequest /\ RequestOp = "=" /\ result.status = "ok")
        => /\ (IsStr(RequestValue) /\ ~OnLastEdited)
                => /\ WhereOf(result.select_query) = RequestSql \o " ILIKE $1"
                   /\ result.params = <<RequestValue>>
           /\ (IsNumber(RequestValue) /\ ~OnLastEdited)
                => /\ WhereOf(result.select_query) = RequestSql \o " = $1"
                   /\ result.params = <<RequestValue>>
           /\ OnLastEdited
                => /\ WhereOf(result.select_query) = RequestSql \o " = $1"
                   /\ result.params = <<TimestampParam(RequestValue)>>

\* status=active has been answered with d.status ILIKE $1 and the raw value
C12_Witness ==
    /\ request.q = "status=active" /\ result.status = "ok"
    /\ WhereOf(result.select_query) = "d.status ILIKE $1"
    /\ result.params = <<PyStr("active")>>

\* the answer to f=V for the field f and the value V of a request f!=V
EqualsAnswer ==
    LET at == Find(request.q, "!=", 1)
    IN parse_query(Self, NewTranslator,
                   Request(Sub(request.q, 1, at - 1) \o Sub(request.q, at + 1, Len(request.q)),
                           request.sort_by, request.sort_order)).result

C14_NotNullGuard ==
    (Answered /\ IsComparisonRequest /\ OnLastEdited /\ result.status = "ok"
       /\ RequestOp \in {"=", "!=", ">", "<", ">=", "<=", "!:", "!~", "#"}
       /\ RequestValue # PyNone /\ ~IsExistenceTest)
        => /\ StartsWith(WhereOf(result.select_query),
                         "(" \o RequestSql \o " IS NOT NULL AND ")
           /\ EndsWith(WhereOf(result.select_query), ")")

\* C15: f:* is translated by the kind the Field Resolver gives f.  A field that
\* resolves to a plain column gives F IS NOT NULL without parameter; a metadata
\* field with a one-segment path gives d.metadata ? $1 with the key as parameter;
\* a metadata field with a nested path gives jsonb_path_exists(d.metadata, $1)
\* with $.a.b as parameter.  This holds also for a name that is both a column and
\* a metadata key.
C15_ExistenceByKind ==
    (Answered /\ IsComparisonRequest /\ RequestOp = ":" /\ RequestValue = PyStr("*")
       /\ result.status = "ok")
        => LET f == RequestField
               path == IF f[1] = "metadata" THEN Tail(f) ELSE f
           IN /\ PlainColumn(f)
                   => /\ WhereOf(result.select_query) = ResolvedSql(f) \o " IS NOT NULL"
                      /\ result.params = <<>>
              /\ (MetadataClassified(f) /\ Len(path) = 1)
                   => /\ WhereOf(result.select_query) = "d.metadata ? $1"
                      /\ result.params = <<PyStr(path[1])>>
              /\ (MetadataClassified(f) /\ Len(path) > 1)
                   => /\ WhereOf(result.select_query) = "jsonb_path_exists(d.metadata, $1)"
                      /\ result.params = <<PyStr("$." \o Join(path, "."))>>

-----------------------------------------------------------------------------
(* Global search *)

\* the request is one global-search term
IsGlobalSearchRequest == Parse(request.q).ok /\ Parse(request.q).ast.node = "GlobalSearch"
RequestTerm == Parse(request.q).ast

\* the term is a quoted string in the query text
QuotedInSource == Ch(Strip(request.q), 1) \in QuoteChars

\* the operand a search field is matched with: a UUID column is cast to text
SearchOperand(field_name) ==
    IF Contains(Lower(field_name), "uuid") THEN field_name \o "::text" ELSE field_name

\* (p1 OR ... OR pk): one predicate per search field on the placeholder $n,
\* regex match for a quoted term, substring match for an unquoted one
SearchClauseAt(fields, is_quoted, n) ==
    "(" \o Join([i \in 1..Len(fields) |->
                   IF is_quoted THEN SearchOperand(fields[i]) \o " ~* " \o Placeholder(n)
                   ELSE SearchOperand(fields[i]) \o " ILIKE '%' || " \o Placeholder(n)
                          \o " || '%'"], " OR ")
        \o ")"

SearchClause(fields, is_quoted) == SearchClauseAt(fields, is_quoted, 1)

\* the statement for every term: a GlobalSearch node translates to the
\* parenthesised OR over the search fields with one parameter, the trimmed term.
C16_GlobalSearchAsWritten ==
    (Answered /\ IsGlobalSearchRequest /\ result.status = "ok")
        => /\ translator.global_search_fields # <<>>
           /\ WhereOf(result.select_query)
                = SearchClause(translator.global_search_fields, RequestTerm.is_quoted)
           /\ result.params = <<PyStr(Strip(RequestTerm.value))>>
           /\ RequestTerm.is_quoted = QuotedInSource

\* C16: a GlobalSearch node whose trimmed term is neither empty nor * translates
\* to a parenthesised OR of one predicate per field of the search-field set, all on
\* one placeholder, and appends one parameter, the trimmed term; a quoted term
\* uses ~* on every field and an unquoted one ILIKE '%' || $n || '%'.  A term that
\* is * or empty after trimming translates to TRUE without parameter.  is_quoted
\* is true exactly when the term is a quoted string in the query.
C16_GlobalSearch ==
    (Answered /\ IsGlobalSearchRequest /\ result.status = "ok")
        => /\ translator.global_search_fields # <<>>
           /\ RequestTerm.is_quoted = QuotedInSource
           /\ IF Strip(RequestTerm.value) \in {"*", ""}
              THEN WhereOf(result.select_query) = "TRUE" /\ result.params = <<>>
              ELSE /\ WhereOf(result.select_query)
                        = SearchClause(translator.global_search_fields, RequestTerm.is_quoted)
                   /\ result.params = <<PyStr(Strip(RequestTerm.value))>>

\* a quoted term with blanks around it has been answered with regex matches on
\* the trimmed term
C16_Witness ==
    /\ request.q = "\" beam test \"" /\ result.status = "ok"
    /\ RequestTerm.is_quoted
    /\ result.params = <<PyStr("beam test")>>
    /\ Contains(WhereOf(result.select_query), "d.name ~* $1 OR ")
    /\ ~Contains(WhereOf(result.select_query), "ILIKE")

\* the placeholders of the global-search predicates of the WHERE clause: $k is
\* one when the name column and the flattened metadata are both matched with it
SearchPlaceholders ==
    LET w == WhereOf(result.select_query)
    IN {k \in 1..Len(result.params) :
          \/ Contains(w, "(d.name ILIKE '%' || " \o Placeholder(k)
                           \o " || '%' OR jsonb_values_to_text(d.metadata) ILIKE '%' || "
                           \o Placeholder(k) \o " || '%'")
          \/ Contains(w, "(d.name ~* " \o Placeholder(k)
                           \o " OR jsonb_values_to_text(d.metadata) ~* " \o Placeholder(k))}

\* the UUID column is among the fields matched with $k
SearchesUuid(k) ==
    LET w == WhereOf(result.select_query)
    IN \/ Contains(w, " OR d.uuid::text ILIKE '%' || " \o Placeholder(k) \o " || '%'")
       \/ Contains(w, " OR d.uuid::text ~* " \o Placeholder(k))

\* C17: in every answer, on the normal and on the recovery path, the predicate
\* of a global-search term matches the UUID column d.uuid if and only if that
\* term is UUID-shaped, also when only some of the terms of the query are.
C17_UuidOnlyForUuidTerms ==
    (result.status = "ok")
        => \A k \in SearchPlaceholders :
              SearchesUuid(k) = is_uuid_format(result.params[k].s)

-----------------------------------------------------------------------------
(* Recovery *)

\* the separator at i is the keyword AND in capitals between blanks
MatchLiteralAnd(s, i) ==
    IF MatchAndSeparator(s, i) # 0 /\ Contains(Sub(s, i, MatchAndSeparator(s, i) - 1), "AND")
    THEN MatchAndSeparator(s, i) ELSE 0

RECURSIVE LiteralSplitFrom(_, _, _)
LiteralSplitFrom(s, start, i) ==
    IF i > Len(s) THEN <<Sub(s, start, Len(s))>>
    ELSE IF MatchLiteralAnd(s, i) # 0
    THEN <<Sub(s, start, i - 1)>> \o LiteralSplitFrom(s, MatchLiteralAnd(s, i),
                                                      MatchLiteralAnd(s, i))
    ELSE LiteralSplitFrom(s, start, i + 1)

\* the segments of a split, blanks around them removed, empty ones dropped
Segments(parts) == SelectSeq([i \in 1..Len(parts) |-> Strip(parts[i])], LAMBDA t : t # "")

\* the translations of segments that parse, in their order, by one translator
RECURSIVE ExactClauses(_, _)
ExactClauses(tr, segs) ==
    IF Len(segs) = 0 THEN [tr |-> tr, sqls |-> <<>>]
    ELSE LET t == translate(tr, Parse(segs[1]).ast)
             rest == ExactClauses(t.tr, Tail(segs))
         IN [tr |-> rest.tr, sqls |-> <<t.sql>> \o rest.sqls]

\* the recovery answers for the segments segs: the AND of the translations of
\* the segments that parse and, when some segment does not parse, of one search
\* predicate for the failing segments joined by a blank
RecoveryAnswers(segs) ==
    LET fields == translator.global_search_fields
        exact == ExactClauses(ResetFor(Self, NewTranslator, fields),
                              SelectSeq(segs, LAMBDA t : Parse(t).ok))
        failing == SelectSeq(segs, LAMBDA t : ~Parse(t).ok)
        n == Len(exact.tr.params)
    IN {[where |-> "(" \o Join(exact.sqls \o (IF Len(failing) > 0
                                               THEN <<SearchClauseAt(fields, quoted, n + 1)>>
                                               ELSE <<>>), " AND ") \o ")",
         params |-> exact.tr.params \o (IF Len(failing) > 0
                                         THEN <<PyStr(Join(failing, " "))>> ELSE <<>>)] :
          quoted \in BOOLEAN}

\* the answer of the state, as a recovery answer
RecoveryAnswer == [where |-> WhereOf(result.select_query), params |-> result.params]

-----------------------------------------------------------------------------
(* Placeholder numbering *)

\* where the placeholder $k first occurs in a text, 0 if it does not
FirstAt(text, k) == Find(text, Placeholder(k), 1)

\* C19: placeholder numbering is contiguous from 1 and follows the order in
\* which parameters are appended.  When a translation has returned or raised,
\* the translator's param_index is len(params); in the SQL of an accepted query
\* the placeholders are $1..$len(params), each $k first occurring after $(k-1),
\* and the parameters returned are the translator's, in append order.
C19_NumberingMatchesAppendOrder ==
    Answered
        => /\ translator.param_index = Len(translator.params)
           /\ (result.status = "ok" /\ result.path = "normal")
                => /\ result.params = translator.params
                   /\ \A k \in 1..Len(result.params) :
                         FirstAt(WhereOf(result.select_query), k) # 0
                   /\ \A k \in 2..Len(result.params) :
                         FirstAt(WhereOf(result.select_query), k - 1)
                            < FirstAt(WhereOf(result.select_query), k)
                   /\ PlaceholdersIn(WhereOf(result.select_query)) = 1..Len(result.params)

\* a numeric comparison, an existence test and a substring match have been
\* translated: $1, $2, $3 refer to 7, the key tag and %x% in this order
C19_Witness ==
    /\ request.q = "run.energy>=7 AND tag:* AND name:x"
    /\ result.status = "ok" /\ result.path = "normal"
    /\ translator.param_index = 3
    /\ result.params = <<PyInt(7), PyStr("tag"), PyStr("%x%")>>
    /\ WhereOf(result.select_query)
         = "(((d.metadata->'run'->>'energy')::numeric >= $1 AND d.metadata ? $2)"
             \o " AND d.name ILIKE $3)"

-----------------------------------------------------------------------------
(* The _name suffix *)

\* the field X_name of a field X (the suffix goes on the first part)
WithNameSuffix(parts) == <<parts[1] \o "_name">> \o Tail(parts)

\* Field(parts).to_sql as _translate_comparison calls it for the request
RequestResolution(parts) ==
    to_sql(parts, schema_mapping, RequestValue, RequestOp, available_metadata_fields,
           string_fields, id_fields, entity_fields)

\* C20: for the field X of a translated comparison, Field(X_name) and Field(X)
\* either both fail with invalid_field or both resolve to the same SQL
\* expression, in the Schema Context of the call (an operator that the
\* validation refuses for X is refused for X_name with the same error).
C20_NameSuffixResolvesTheSame ==
    (Answered /\ IsComparisonRequest)
        => LET x == RequestResolution(RequestField)
               x_name == RequestResolution(WithNameSuffix(RequestField))
           IN \/ x.err.type = "invalid_field" /\ x_name.err.type = "invalid_field"
              \/ x.err = NoError /\ x_name.err = NoError /\ x.sql = x_name.sql
              \/ x.err.type = "invalid_operation" /\ x_name.err = x.err

-----------------------------------------------------------------------------
(* Resolution order *)

RECURSIVE ArrowPath(_, _)
\* ->'k1'->...->>'kn' for the segments from the i-th on
ArrowPath(parts, i) ==
    IF i = Len(parts) THEN "->>'" \o parts[i] \o "'"
    ELSE "->'" \o parts[i] \o "'" \o ArrowPath(parts, i + 1)

\* the JSON path d.metadata->'k1'->...->>'kn' over all segments of a field
MetadataPath(parts) == "d.metadata" \o ArrowPath(parts, 1)

-----------------------------------------------------------------------------
(* Operator validation *)

\* the request compares a string-classified field that is no metadata field
OnStringField ==
    /\ BaseField(RequestField) \in string_fields
    /\ BaseField(RequestField) \notin available_metadata_fields
    /\ BaseField(RequestField) # "metadata"

\* the field of the request is subject to the integer test of id fields
OnIdField ==
    BaseField(RequestField) \in id_fields \/ EndsWith(BaseField(RequestField), "_id")

\* the call raised invalid_operation naming the field and the operator of the
\* request, and no parameter was appended
RefusedAsInvalidOperation ==
    /\ result.status = "raise"
    /\ result.err = SearchValidationError("invalid_operation", BaseField(RequestField),
                                          RequestOp)
    /\ translator.params = <<>>
    /\ translator.param_index = 0

\* C22 as stated: on a string-classified field that is no metadata field, an
\* ordering operator with a numeric or string value raises invalid_operation
\* with the field name and the operator and appends no parameter; every other
\* operator is accepted on the same field.
C22_StringOrderingAsWritten ==
    (Answered /\ IsComparisonRequest /\ OnStringField /\ SortResolves)
        => /\ (RequestOp \in {">", "<", ">=", "<="}
                 /\ RequestValue.kind \in {"int", "float", "str"})
                => RefusedAsInvalidOperation
           /\ RequestOp \in {"=", "!=", ":", "!:", "=~", "!~", "#"}
                => result.status = "ok"

\* C22: on a string-classified field that is no metadata field, an ordering
\* operator with a numeric or string value raises invalid_operation with the
\* field name and the operator and appends no parameter; every other operator
\* is accepted on the same field, unless the field is also an id field, the
\* operator is = or != and int() refuses the value: then the call raises too.
C22_StringOrdering ==
    (Answered /\ IsComparisonRequest /\ OnStringField /\ SortResolves)
        => /\ (RequestOp \in {">", "<", ">=", "<="}
                 /\ RequestValue.kind \in {"int", "float", "str"})
                => RefusedAsInvalidOperation
           /\ RequestOp \in {"=", "!=", ":", "!:", "=~", "!~", "#"}
                => IF /\ OnIdField /\ RequestOp \in {"=", "!="}
                      /\ RequestValue.kind # "none" /\ ~IntCoercible(RequestValue)
                   THEN result.status = "raise" /\ translator.params = <<>>
                   ELSE result.status = "ok"

\* an ordering comparison of the text column name with a string has been
\* refused, nothing appended
C22_Witness ==
    /\ request.q = "name>active"
    /\ result.status = "raise"
    /\ result.err = SearchValidationError("invalid_operation", "name", ">")
    /\ translator.params = <<>>

\* C23: on a field that is classified as an id field, or whose suffix-stripped
\* base name ends in _id, a comparison with =, !=, >, <, >= or <= and a value
\* is accepted exactly when int() accepts the value and raises
\* invalid_operation otherwise; the other operators never raise
\* invalid_operation on such a field.
C23_IdFieldsTakeIntegers ==
    (Answered /\ IsComparisonRequest /\ OnIdField /\ SortResolves
       /\ RequestValue.kind # "none")
        => IF RequestOp \in {"=", "!=", ">", "<", ">=", "<="}
           THEN IF IntCoercible(RequestValue)
                THEN result.status = "raise" => result.err.type = "invalid_field"
                ELSE RefusedAsInvalidOperation
           ELSE result.status = "raise" => result.err.type = "invalid_field"

-----------------------------------------------------------------------------
(* last_edited_at: without a value *)

\* the node is the test last_edited_at: with no value or an empty one
IsEditedTest(node) ==
    /\ node.node = "Comparison"
    /\ node.field = <<"last_edited_at">>
    /\ node.op = ":"
    /\ node.value \in {PyNone, PyStr("")}

\* the translation of a node by a translator that has been reset for the request
Alone(node) == translate(ResetFor(Self, NewTranslator, translator.global_search_fields), node)

\* the keyword that joins the operands of an And or Or node
Joiner(node) == IF node.node = "And" THEN " AND " ELSE " OR "

\* C24: last_edited_at: with no value or an empty value translates to
\* d.last_edited_at IS NOT NULL, appends no parameter and leaves the
\* placeholder counter as it found it: alone it gives no parameter and
\* counter 0; as one operand of AND or OR the other operand is translated as
\* it is on its own, from $1 on, and the parameters are the other operand's.
C24_EditedTestTakesNoPlaceholder ==
    (Answered /\ Parse(request.q).ok /\ SortResolves)
        => LET ast == Parse(request.q).ast
               w == WhereOf(result.select_query)
           IN /\ IsEditedTest(ast)
                   => /\ result.status = "ok"
                      /\ w = "d.last_edited_at IS NOT NULL"
                      /\ result.params = <<>>
                      /\ translator.param_index = 0
              /\ (ast.node \in {"And", "Or"} /\ IsEditedTest(ast.left)
                    /\ Alone(ast.right).err = NoError)
                   => /\ result.status = "ok"
                      /\ w = "(d.last_edited_at IS NOT NULL" \o Joiner(ast)
                               \o Alone(ast.right).sql \o ")"
                      /\ result.params = Alone(ast.right).tr.params
                      /\ translator.param_index = Len(result.params)
              /\ (ast.node \in {"And", "Or"} /\ IsEditedTest(ast.right)
                    /\ Alone(ast.left).err = NoError)
                   => /\ result.status = "ok"
                      /\ w = "(" \o Alone(ast.left).sql \o Joiner(ast)
                               \o "d.last_edited_at IS NOT NULL)"
                      /\ result.params = Alone(ast.left).tr.params
                      /\ translator.param_index = Len(result.params)

\* the compound query of the claim has been translated: the comparison after
\* the valueless test uses $1 and params has its one value
C24_Witness ==
    /\ request.q = "last_edited_at: AND name=x"
    /\ result.status = "ok"
    /\ WhereOf(result.select_query) = "(d.last_edited_at IS NOT NULL AND d.name ILIKE $1)"
    /\ result.params = <<PyStr("x")>>
    /\ translator.param_index = 1

-----------------------------------------------------------------------------
(* The search phrase of the recovery *)

\* the call was answered by the hybrid recovery with a fallback search predicate
RecoveredWithSearch ==
    /\ Answered /\ Rejected
    /\ result.status = "ok" /\ result.path = "hybrid"
    /\ Len(all_search_terms(request.q)) > 0

\* the parameter bound to the fallback search predicate (appended last)
SearchPhrase == result.params[Len(result.params)]

\* C25: when the query that the recovery answers contains a quoted sub-string,
\* the parameter bound to the fallback search predicate is that quoted
\* sub-string, not the blank-joined text of the segments that failed to parse.
C25_QuotedPhraseTakesPriority ==
    (RecoveredWithSearch /\ FirstQuoted(request.q).found)
        => SearchPhrase = PyStr(Strip(FirstQuoted(request.q).text))

-----------------------------------------------------------------------------
(* The last resort of the recovery *)

\* the hybrid step raised and _build_fuzzy_search_clause answered the call
AnsweredByFallback == Answered /\ Rejected /\ result.status = "ok" /\ result.path = "fuzzy"

\* C26: when the hybrid step raises, parse_query returns one free-text search
\* predicate over the search fields whose single parameter is the whole
\* original query string, nothing removed or replaced.
C26_FallbackBindsWholeQuery ==
    AnsweredByFallback
        => /\ result.params = <<PyStr(request.q)>>
           /\ PlaceholdersIn(WhereOf(result.select_query)) = {1}

-----------------------------------------------------------------------------
(* Parameters of the recovery *)

\* the search predicate that the hybrid step appends, numbered n
FallbackClause(n) ==
    SearchClauseAt(translator.global_search_fields, FirstQuoted(request.q).found, n)

\* C27: on the recovery path params and SQL agree.  The WHERE clause uses
\* exactly the placeholders $1..$len(params).  After the hybrid step the
\* parameters of the segments that parsed come first, in translation order,
\* under $1..$k; when a segment failed to parse, the search predicate closes
\* the WHERE clause under $(k+1) and its phrase is the one parameter after
\* those k; when none failed, nothing is appended.
C27_RecoveryParamsMatchSql ==
    (Answered /\ Rejected /\ result.status = "ok")
        => LET w == WhereOf(result.select_query)
               n == Len(result.params)
               k == Len(translator.params)
               exact == Sub(w, 1, Len(w) - Len(FallbackClause(k + 1)) - 1)
           IN /\ PlaceholdersIn(w) = 1..n
              /\ result.path = "hybrid"
                   => /\ k <= n /\ SubSeq(result.params, 1, k) = translator.params
                      /\ IF Len(all_search_terms(request.q)) = 0 THEN n = k
                         ELSE /\ n = k + 1
                              /\ result.params[n]
                                   = PyStr(Strip(Join(all_search_terms(request.q), " ")))
                              /\ EndsWith(w, FallbackClause(k + 1) \o ")")
                              /\ PlaceholdersIn(exact) = 1..k

\* one segment with a parameter has been translated and one has failed to
\* parse: $1 is the segment's value, $2 the search phrase
C27_Witness ==
    /\ request.q = "size>1 AND \"beam test\" run"
    /\ db = SnapshotA
    /\ result.status = "ok" /\ result.path = "hybrid"
    /\ result.params = <<PyInt(1), PyStr("\"beam test\" run")>>
    /\ WhereOf(result.select_query)
         = "(d.size > $1 AND (d.name ~* $2 OR jsonb_values_to_text(d.metadata) ~* $2"
             \o " OR cat.name ~* $2))"

-----------------------------------------------------------------------------
(* A history of calls and the list objects they return *)
(* parse_query returns self.translator.params itself on the normal path, a   *)
(* list of its own on the other paths.  Here calls is the record             *)
(* [heap, cur, log]: heap holds the list objects created so far, cur is the  *)
(* one bound to translator.params, log the finished calls with the list      *)
(* each one returned (ref, 0 for a call that raised) and its content then.   *)

\* number of parse_query calls in one history
MaxHistory == 3

HistoryRequests ==
    {Request(q, DefaultSortBy, DefaultSortOrder) :
        q \in {"status=active", "status=active AND nope=1", "size>1 AND name=x", "",
               "foo AND \"bar baz", "foo bar AND nonexistent_field=1", "tag:*"}}

\* reset: self.params = [] binds a new list, which the translation then fills
\* with params; the list bound before stays as it is
Rebound(heap, cur, params) == [heap |-> Append(heap, params), cur |-> Len(heap) + 1]

\* a set-up parser, its translator as constructed (self.params = [])
InitHistory ==
    /\ db \in Snapshots
    /\ schema_mapping = SetUp(db).schema_mapping
    /\ available_metadata_fields = SetUp(db).available_metadata_fields
    /\ string_fields = SetUp(db).string_fields
    /\ id_fields = SetUp(db).id_fields
    /\ entity_fields = SetUp(db).entity_fields
    /\ navigation_analysis = SetUp(db).navigation_analysis
    /\ entity_aliases = SetUp(db).entity_aliases
    /\ from_and_joins = SetUp(db).from_and_joins
    /\ translator = NewTranslator
    /\ setup_pc = "done"
    /\ setups = 1
    /\ request = NoRequest
    /\ result = NoResult
    /\ calls = [heap |-> <<NewTranslator.params>>, cur |-> 1, log |-> <<>>]

\* one more parse_query call on the same QueryParser
ParseQueryLogged ==
    /\ Len(calls.log) < MaxHistory
    /\ \E req \in HistoryRequests :
          \E r \in {parse_query(Self, translator, req)} :
             \E b \in {IF Begin(Self, req).kind = "final"
                       THEN [heap |-> calls.heap, cur |-> calls.cur]
                       ELSE Rebound(calls.heap, calls.cur, r.tr.params)} :
                /\ request' = req
                /\ result' = r.result
                /\ translator' = r.tr
                /\ calls' =
                     IF r.result.status # "ok"
                     THEN [heap |-> b.heap, cur |-> b.cur,
                           log |-> Append(calls.log,
                                          [req |-> req, result |-> r.result, ref |-> 0,
                                           returned |-> <<>>])]
                     ELSE IF r.result.path = "normal"
                     THEN [heap |-> b.heap, cur |-> b.cur,
                           log |-> Append(calls.log,
                                          [req |-> req, result |-> r.result, ref |-> b.cur,
                                           returned |-> r.result.params])]
                     ELSE [heap |-> Append(b.heap, r.result.params), cur |-> b.cur,
                           log |-> Append(calls.log,
                                          [req |-> req, result |-> r.result,
                                           ref |-> Len(b.heap) + 1,
                                           returned |-> r.result.params])]
    /\ UNCHANGED <<db, parserVars, setup_pc, setups>>

NextHistory == ParseQueryLogged

SpecHistory == InitHistory /\ [][NextHistory]_vars

\* C28: in any sequence of parse_query calls on one QueryParser every call
\* translates from an empty parameter list and counter 0, so that it answers
\* as it does on a translator just constructed, also after a call that raised
\* halfway through a translation; and the list a finished call returned still
\* holds what it held when it was returned.
C28_CallsStartCleanAndKeepLists ==
    \A i \in 1..Len(calls.log) :
        /\ calls.log[i].result = parse_query(Self, NewTranslator, calls.log[i].req).result
        /\ calls.log[i].ref # 0 => calls.heap[calls.log[i].ref] = calls.log[i].returned

\* a call returned the translator's own list with one value, the next call
\* raised invalid_field after it had appended a value, and a third call was
\* answered from $1 on
C28_Witness ==
    /\ Len(calls.log) = 3
    /\ calls.log[1].req.q = "status=active" /\ calls.log[1].returned = <<PyStr("active")>>
    /\ calls.log[1].ref # calls.cur
    /\ calls.log[2].req.q = "status=active AND nope=1"
    /\ calls.log[2].result.status = "raise"
    /\ calls.log[3].req.q = "size>1 AND name=x"
    /\ calls.log[3].returned = <<PyInt(1), PyStr("x")>>
    /\ calls.log[3].ref = calls.cur
    /\ WhereOf(result.select_query) = "(d.size > $1 AND d.name ILIKE $2)"

-----------------------------------------------------------------------------
(* The two statements of one answer *)

\* the FROM/JOIN clause and the predicate of count_query
CountFrom(count_query) ==
    Sub(count_query, Len("SELECT COUNT(*) ") + 1, Find(count_query, " WHERE ", 1) - 1)

CountWhere(count_query) ==
    LET w == Find(count_query, " WHERE ", 1)
    IN IF w = 0 THEN "" ELSE Sub(count_query, w + Len(" WHERE "), Len(count_query))

\* the FROM/JOIN clause of select_query
SelectFrom(select_query) ==
    Sub(select_query, Find(select_query, "\nFROM ", 1) + 1, Find(select_query, "\nWHERE ", 1) - 1)

\* C29: for every non-blank query that parse_query answers, on the normal,
\* the hybrid and the fuzzy path, count_query and select_query have the same
\* FROM/JOIN clause (the one setup built) and the same WHERE predicate, and
\* count_query has no ORDER BY.
C29_CountAndSelectAgree ==
    (Answered /\ Strip(request.q) # "" /\ result.status = "ok")
        => /\ result.path \in {"normal", "hybrid", "fuzzy"}
           /\ StartsWith(result.count_query, "SELECT COUNT(*) FROM ")
           /\ Find(result.count_query, " WHERE ", 1) # 0
           /\ Find(result.select_query, "\nWHERE ", 1) # 0
           /\ CountFrom(result.count_query) = from_and_joins
           /\ SelectFrom(result.select_query) = from_and_joins
           /\ CountWhere(result.count_query) = WhereOf(result.select_query)
           /\ CountWhere(result.count_query) # ""
           /\ ~Contains(result.count_query, "ORDER BY")
           /\ Contains(result.select_query, "\nORDER BY ")

\* a recovered query over two joined tables: one exact clause and the search
C29_Witness ==
    /\ Answered /\ result.status = "ok" /\ result.path = "hybrid"
    /\ Contains(from_and_joins, "LEFT JOIN detectors det")
    /\ Len(result.params) = 2
    /\ CountWhere(result.count_query) = WhereOf(result.select_query)
    /\ StartsWith(CountWhere(result.count_query), "(")

-----------------------------------------------------------------------------
(* Numeric casts and text operators *)

\* the operators the translator emits as themselves on a numeric value
NumericSqlOps == {"=", "!=", ">", "<", ">=", "<="}

\* C30: the translator never applies a text operator to a numeric-cast
\* expression: the WHERE clause of a translated comparison has `::numeric`
\* only when the value is numeric and the operator is one of = != > < >= <=,
\* and a clause with ILIKE (the contains operator `:`, bound to `%V%`) has its
\* field expression left as text.
C30_NoTextOperatorOnNumericCast ==
    (Answered /\ IsComparisonRequest /\ result.status = "ok" /\ result.path = "normal")
        => /\ Contains(WhereOf(result.select_query), "::numeric")
                => /\ IsNumber(RequestValue)
                   /\ RequestOp \in NumericSqlOps
           /\ Contains(WhereOf(result.select_query), " ILIKE ")
                => ~Contains(WhereOf(result.select_query), "::numeric")

====
